---- MODULE Spec2Model ----
(***************************************************************************)
(* The dual-store attendance lifecycle: the live store (Redis) with its    *)
(* two secondary indexes, live per-student records and the verification    *)
(* correlation map; the durable store (PostgreSQL); the teacher and        *)
(* student request handlers, the verifier's webhook, and the persistence   *)
(* sweep.  Every awaited store operation of a handler is one step, so the  *)
(* handlers, the webhook and the sweep interleave as coroutines do.        *)
(***************************************************************************)
EXTENDS Naturals, Integers, Sequences, FiniteSets, TLC

\* ------------------------------------------------------------------ bounds
MaxTime == 2
MaxSessions == 2
MaxVerifs == 2
MaxTeacherCalls == 2
MaxAttendCalls == 2
MaxHookCalls == 2

\* ----------------------------------------------------------- the universe
Teachers == {"t1", "t2"}
Students == {"s1", "s2"}
Lessons == {"math"}
Ids == 1..MaxSessions
Times == 0..MaxTime
TeacherCallSlots == 1..MaxTeacherCalls
AttendCallSlots == 1..MaxAttendCalls
HookCallSlots == 1..MaxHookCalls
\* verification ids: 0 is an id the application never issued
VerifIds == 0..MaxVerifs

\* client addresses as get_client_ip returns them: text that is an IPv4
\* address <<"v4", its /24 network, host>>, text that is an IPv6 address
\* <<"v6", its /64 network, host, spelling>> (one address has several
\* spellings), text that is no address <<"text", t>>, or None
Addresses ==
    {<<"v4", 1, 1>>, <<"v4", 1, 2>>, <<"v4", 2, 1>>,
     <<"v6", 1, 1, "short">>, <<"v6", 1, 1, "full">>, <<"v6", 1, 2, "short">>,
     <<"v6", 2, 1, "short">>, <<"text", "a">>, <<"text", "b">>, <<>>}

\* the address the sessions are started from, an address in its /24 and one
\* outside it
RoomIp == <<"v4", 1, 1>>
NearIp == <<"v4", 1, 2>>
FarIp == <<"v4", 2, 1>>

\* user_full_name of a teacher's User object (db_models.User)
FullName(t) == IF t = "t1" THEN "ada" ELSE "bob"

\* Optional[...]: None is the empty sequence, a value v is <<v>>
None == <<>>
Some(v) == <<v>>
NoTime == -1

VARIABLES
    now,          \* datetime.now(timezone.utc)
    nextId,       \* the next uuid4() attendance id
    rSession,     \* attendance_session:{id}             -> AttendanceRedis
    idxTeacher,   \* attendance_index:teacher:{number}   -> set of ids
    idxName,      \* attendance_index:name:{lesson}:{teacherFullName} -> set of ids
    rRecord,      \* attendance_records:{id}:{student}   -> AttendanceRecordRedis
    verif,        \* verification:{verification_id}     -> "student:attendance_id"
    nextVid,      \* the next uuid4() verification id
    dbUsers,      \* Users rows (by user_school_number)
    dbAtt,        \* Attendances rows (by attendance_id)
    dbRec,        \* AttendanceRecords rows (by (attendance_id, student_number))
    tcall,        \* the teacher API calls in flight, one per slot
    acall,        \* the attend_to_attendance calls in flight
    hcall,        \* the webhook deliveries in flight
    hookWrites,   \* history: how often a delivery for an id wrote the record
    swPc,         \* where unified_persistence_task is
    swNow,        \* its local `now`
    swTodo,       \* keys scan_iter still has to yield
    swSess,       \* its local attendance_session
    swRecs        \* its local associated_redis_records (student -> record)

sessVars == <<rSession, idxTeacher, idxName>>
verVars == <<verif, nextVid>>
storeVars == <<sessVars, rRecord, verVars>>
callVars == <<tcall, acall, hcall, hookWrites>>
dbVars == <<dbUsers, dbAtt, dbRec>>
sweepVars == <<swPc, swNow, swTodo, swSess, swRecs>>
vars == <<now, nextId, rSession, idxTeacher, idxName, rRecord, verif, nextVid,
          dbUsers, dbAtt, dbRec, tcall, acall, hcall, hookWrites, swPc, swNow,
          swTodo, swSess, swRecs>>

\* ------------------------------------------------------- key-value helpers
\* SET key value
Put(f, k, v) == [x \in (DOMAIN f) \cup {k} |-> IF x = k THEN v ELSE f[x]]
\* DEL key [key ...]
Del(f, ks) == [x \in (DOMAIN f) \ ks |-> f[x]]
\* GET key
Get(f, k) == IF k \in DOMAIN f THEN Some(f[k]) ELSE None

NameKeys == {<<l, FullName(t)>> : l \in Lessons, t \in Teachers}
NameKey(sess) == <<sess.lesson, sess.name>>

IdleCall == [op |-> "idle"]

\* a new request is served in the first free slot (the slots are interchangeable)
FreeSlot(calls, k) ==
    /\ calls[k] = IdleCall
    /\ \A j \in DOMAIN calls : j < k => calls[j] # IdleCall

Init ==
    /\ now = 0
    /\ nextId = 1
    /\ rSession = <<>>
    /\ idxTeacher = [t \in Teachers |-> {}]
    /\ idxName = [k \in NameKeys |-> {}]
    /\ rRecord = <<>>
    /\ verif = <<>>
    /\ nextVid = 1
    /\ dbUsers = {}
    /\ dbAtt = <<>>
    /\ dbRec = <<>>
    /\ tcall = [k \in TeacherCallSlots |-> IdleCall]
    /\ acall = [k \in AttendCallSlots |-> IdleCall]
    /\ hcall = [k \in HookCallSlots |-> IdleCall]
    /\ hookWrites = [v \in VerifIds |-> 0]
    /\ swPc = "idle"
    /\ swNow = 0
    /\ swTodo = {}
    /\ swSess = None
    /\ swRecs = <<>>

\* the wall clock advances
Tick ==
    /\ now < MaxTime
    /\ now' = now + 1
    /\ UNCHANGED <<nextId, storeVars, dbVars, callVars, sweepVars>>

\* ------------------------------------------------------------ RedisClient
\* faulty variant: the blob is set without the index entries
save_attendance_session_BlobOnly(sess) ==
    /\ rSession' = Put(rSession, sess.id, sess)
    /\ idxName' = idxName
    /\ idxTeacher' = idxTeacher

\* save_attendance_session: one MULTI/EXEC of SET + SADD + SADD
save_attendance_session(sess) ==
    /\ rSession' = Put(rSession, sess.id, sess)
    /\ idxName' = [idxName EXCEPT ![NameKey(sess)] = @ \cup {sess.id}]
    /\ idxTeacher' = [idxTeacher EXCEPT ![sess.teacher] = @ \cup {sess.id}]

\* faulty variant: the name index entry is left behind
delete_attendance_session_KeepsNameIndex(sess) ==
    /\ rSession' = Del(rSession, {sess.id})
    /\ idxName' = idxName
    /\ idxTeacher' = [idxTeacher EXCEPT ![sess.teacher] = @ \ {sess.id}]

\* faulty variant: the teacher index entry is left behind
delete_attendance_session_KeepsTeacherIndex(sess) ==
    /\ rSession' = Del(rSession, {sess.id})
    /\ idxName' = [idxName EXCEPT ![NameKey(sess)] = @ \ {sess.id}]
    /\ idxTeacher' = idxTeacher

\* delete_attendance_session: one MULTI/EXEC of DEL + SREM + SREM
delete_attendance_session(sess) ==
    /\ rSession' = Del(rSession, {sess.id})
    /\ idxName' = [idxName EXCEPT ![NameKey(sess)] = @ \ {sess.id}]
    /\ idxTeacher' = [idxTeacher EXCEPT ![sess.teacher] = @ \ {sess.id}]

\* get_attendance_session_of_teacher: SMEMBERS, then pop() of an arbitrary
\* member of the returned set, then GET and the end_time check.  The set of
\* values the call can return.
get_attendance_session_of_teacher(t) ==
    IF idxTeacher[t] = {} THEN {None}
    ELSE {IF id \in DOMAIN rSession /\ rSession[id].end_time > now
             THEN Some(rSession[id]) ELSE None : id \in idxTeacher[t]}

\* get_attendance_records: SCAN attendance_records:{id}:* and GET each
get_attendance_records(id) ==
    [s \in {s \in Students : <<id, s>> \in DOMAIN rRecord} |-> rRecord[<<id, s>>]]

\* --------------------------------------------- TeacherService.start_attendance
\* the lookup returned None: the call goes on to build the session
StartCheck(k, t) ==
    /\ FreeSlot(tcall, k)
    /\ None \in get_attendance_session_of_teacher(t)
    /\ tcall' = [tcall EXCEPT ![k] = [op |-> "start", teacher |-> t]]
    /\ UNCHANGED <<acall, hcall, hookWrites, now, nextId, storeVars, dbVars, sweepVars>>

\* uuid4(), AttendanceRedis(...) and save_attendance_session, for a request
\* with lesson_name l from address ip, with end_time e and security_option sec
StartSave(k, l, ip, e, sec) ==
    /\ tcall[k].op = "start"
    /\ nextId <= MaxSessions
    /\ save_attendance_session(
           [id |-> nextId, teacher |-> tcall[k].teacher,
            name |-> FullName(tcall[k].teacher), lesson |-> l, ip |-> ip,
            end_time |-> e, sec |-> sec])
    /\ nextId' = nextId + 1
    /\ tcall' = [tcall EXCEPT ![k] = IdleCall]
    /\ UNCHANGED <<acall, hcall, hookWrites, now, rRecord, verVars, dbVars, sweepVars>>

\* save_attendance_session raised: ServiceError, nothing written
StartSaveFails(k) ==
    /\ tcall[k].op = "start"
    /\ tcall' = [tcall EXCEPT ![k] = IdleCall]
    /\ UNCHANGED <<acall, hcall, hookWrites, now, nextId, storeVars, dbVars, sweepVars>>

\* ------------------------------------------------------ AsyncPostgresClient
\* add_users: INSERT ... ON CONFLICT (user_school_number) DO NOTHING
add_users(us) == dbUsers' = dbUsers \cup us

\* the Attendances row of a session (Attendance(**session.model_dump()); the
\* table's is_deleted defaults to FALSE, deletion_reason and deletion_time
\* to NULL)
AttendanceRow(sess) ==
    [teacher |-> sess.teacher, lesson |-> sess.lesson, ip |-> sess.ip,
     end_time |-> sess.end_time, sec |-> sess.sec, is_deleted |-> FALSE,
     deletion_reason |-> None, deletion_time |-> NoTime]

\* faulty variant: the session row is not inserted
add_attendances_Lost(sess) == dbAtt' = dbAtt

\* add_attendances: INSERT ... ON CONFLICT (attendance_id) DO NOTHING
add_attendances(sess) ==
    dbAtt' = IF sess.id \in DOMAIN dbAtt THEN dbAtt
             ELSE Put(dbAtt, sess.id, AttendanceRow(sess))

\* faulty variant: the row is written without the record's fail_reason
RecordRow_NoReason(rec) ==
    [att |-> rec.att, time |-> rec.time, reason |-> None, is_deleted |-> FALSE,
     deletion_reason |-> None, deletion_time |-> NoTime]

\* the AttendanceRecords row of a live record (model_dump(include=...))
RecordRow(rec) ==
    [att |-> rec.att, time |-> rec.time, reason |-> rec.reason, is_deleted |-> FALSE,
     deletion_reason |-> None, deletion_time |-> NoTime]

\* faulty variant: the record rows are not inserted
add_attendance_records_Lost(id, recs) == dbRec' = dbRec

\* add_attendance_records: INSERT ... ON CONFLICT (attendance_id, student_number)
\* DO UPDATE SET the three fields and is_deleted = FALSE
add_attendance_records(id, recs) ==
    dbRec' = [x \in (DOMAIN dbRec) \cup {<<id, s>> : s \in DOMAIN recs} |->
                 IF x[1] = id /\ x[2] \in DOMAIN recs THEN RecordRow(recs[x[2]])
                 ELSE dbRec[x]]

\* get_attendance_by_id: SELECT ... WHERE attendance_id = $1 AND is_deleted = FALSE
get_attendance_by_id(id) ==
    IF id \in DOMAIN dbAtt /\ ~dbAtt[id].is_deleted THEN Some(dbAtt[id]) ELSE None

\* -------------------------------- TeacherService.get_and_verify_attendance_owner
\* faulty variant: a session that is no longer live is taken for the caller's
\* as soon as its durable row exists
get_and_verify_attendance_owner_AnyDurable(id, t) ==
    IF id \in DOMAIN rSession THEN rSession[id].teacher = t
    ELSE get_attendance_by_id(id) # None

\* TRUE when the call returns a session, FALSE when it raises AuthorizationError
get_and_verify_attendance_owner(id, t) ==
    IF id \in DOMAIN rSession THEN rSession[id].teacher = t
    ELSE /\ get_attendance_by_id(id) # None
         /\ dbAtt[id].teacher = t

\* -------------------------------------------- POST /attendances/{id}/finish
\* _get_and_verify_owner passed: the endpoint goes on to the service
FinishVerifyOwner(k, t, id) ==
    /\ FreeSlot(tcall, k)
    /\ get_and_verify_attendance_owner(id, t)
    /\ tcall' = [tcall EXCEPT ![k] = [op |-> "finish", stage |-> "owner",
                                      teacher |-> t, id |-> id]]
    /\ UNCHANGED <<acall, hcall, hookWrites, now, nextId, storeVars, dbVars, sweepVars>>

\* faulty variant: the session is saved back with the end_time it was read with
FinishRead_KeepsEndTime(k) ==
    /\ tcall[k].op = "finish" /\ tcall[k].stage = "owner"
    /\ now < MaxTime
    /\ LET c == tcall[k]
           got == Get(rSession, c.id)
       IN tcall' = [tcall EXCEPT ![k] =
              IF got = None \/ got[1].teacher # c.teacher THEN IdleCall
              ELSE [op |-> "finish", stage |-> "read", teacher |-> c.teacher,
                    id |-> c.id, sess |-> got[1]]]
    /\ UNCHANGED <<acall, hcall, hookWrites, now, nextId, storeVars, dbVars, sweepVars>>

\* finish_attendance: get_attendance_session; no session or another teacher's
\* raises AuthorizationError and the call ends.  Otherwise the coroutine sets
\* session_to_finish.end_time = datetime.now() as soon as the GET returns,
\* before it awaits the save.
FinishRead(k) ==
    /\ tcall[k].op = "finish" /\ tcall[k].stage = "owner"
    /\ now < MaxTime
    /\ LET c == tcall[k]
           got == Get(rSession, c.id)
       IN tcall' = [tcall EXCEPT ![k] =
              IF got = None \/ got[1].teacher # c.teacher THEN IdleCall
              ELSE [op |-> "finish", stage |-> "read", teacher |-> c.teacher,
                    id |-> c.id, sess |-> [got[1] EXCEPT !.end_time = now]]]
    /\ UNCHANGED <<acall, hcall, hookWrites, now, nextId, storeVars, dbVars, sweepVars>>

\* faulty variant: finishing removes the session from the live store
FinishSave_DeletesSession(k) ==
    /\ tcall[k].op = "finish" /\ tcall[k].stage = "read"
    /\ delete_attendance_session(tcall[k].sess)
    /\ tcall' = [tcall EXCEPT ![k] = IdleCall]
    /\ UNCHANGED <<acall, hcall, hookWrites, now, nextId, rRecord, verVars, dbVars, sweepVars>>

\* save_attendance_session(session_to_finish)
FinishSave(k) ==
    /\ tcall[k].op = "finish" /\ tcall[k].stage = "read"
    /\ save_attendance_session(tcall[k].sess)
    /\ tcall' = [tcall EXCEPT ![k] = IdleCall]
    /\ UNCHANGED <<acall, hcall, hookWrites, now, nextId, rRecord, verVars, dbVars, sweepVars>>

\* save_attendance_session raised: ServiceError, nothing written
FinishSaveFails(k) ==
    /\ tcall[k].op = "finish" /\ tcall[k].stage = "read"
    /\ tcall' = [tcall EXCEPT ![k] = IdleCall]
    /\ UNCHANGED <<acall, hcall, hookWrites, now, nextId, storeVars, dbVars, sweepVars>>

\* ----------------------------- the owner-checked endpoints of api/teacher.py
\* finish, live accept and fail, historical add, accept and fail,
\* delete-attendance and delete-record
OwnerCheckedOps ==
    {"finish", "live_accept", "live_fail", "historical_add", "historical_accept",
     "historical_fail", "delete_attendance", "delete_record"}

\* the reason a teacher's fail request carries (FailStudentRequest.reason)
MANUAL == <<"MANUAL">>

\* the response of an endpoint: status code, with the request it answers
TeacherDone(c, code) ==
    [op |-> "done", req |-> c.op, teacher |-> c.teacher, id |-> c.id, code |-> code]

TeacherCall(k, ops, stage) ==
    tcall[k].op \in ops /\ tcall[k].stage = stage

\* a request of teacher t arrives: op on attendance id, student s, and for
\* the historical add is_attended = att
TeacherReceive(k, op, t, id, s, att) ==
    /\ FreeSlot(tcall, k)
    /\ op \in OwnerCheckedOps
    /\ tcall' = [tcall EXCEPT ![k] = [op |-> op, stage |-> "received", teacher |-> t,
                                      id |-> id, s |-> s, att |-> att]]
    /\ UNCHANGED <<acall, hcall, hookWrites, now, nextId, storeVars, dbVars, sweepVars>>

\* await _get_and_verify_owner(attendance_id, user, service): AuthorizationError
\* becomes HTTP 404; otherwise the endpoint goes on to the service
TeacherVerifyOwner(k) ==
    /\ TeacherCall(k, OwnerCheckedOps, "received")
    /\ LET c == tcall[k]
       IN tcall' = [tcall EXCEPT ![k] =
              IF ~get_and_verify_attendance_owner(c.id, c.teacher) THEN TeacherDone(c, 404)
              ELSE IF c.op = "finish"
                 THEN [op |-> "finish", stage |-> "owner", teacher |-> c.teacher,
                       id |-> c.id]
              ELSE [c EXCEPT !.stage = "owner"]]
    /\ UNCHANGED <<acall, hcall, hookWrites, now, nextId, storeVars, dbVars, sweepVars>>

\* accept_student_attendance / fail_student_in_live_attendance:
\* get_attendance_record_by_id; no record is HTTP 404; otherwise the fields
\* are set on the loaded record before the update is awaited
LiveRecordRead(k) ==
    /\ TeacherCall(k, {"live_accept", "live_fail"}, "owner")
    /\ LET c == tcall[k]
           target_record == Get(rRecord, <<c.id, c.s>>)
       IN tcall' = [tcall EXCEPT ![k] =
              IF target_record = None THEN TeacherDone(c, 404)
              ELSE [c EXCEPT !.stage = "loaded"] @@
                   [rec |-> IF c.op = "live_accept"
                               THEN [att |-> TRUE, time |-> now, reason |-> None]
                               ELSE [target_record[1] EXCEPT !.att = FALSE,
                                                             !.reason = MANUAL]]]
    /\ UNCHANGED <<acall, hcall, hookWrites, now, nextId, storeVars, dbVars, sweepVars>>

\* faulty variant: the override is also written to the durable record row
LiveRecordWrite_WritesThrough(k) ==
    /\ TeacherCall(k, {"live_accept", "live_fail"}, "loaded")
    /\ rRecord' = Put(rRecord, <<tcall[k].id, tcall[k].s>>, tcall[k].rec)
    /\ dbRec' = IF <<tcall[k].id, tcall[k].s>> \in DOMAIN dbRec
                   THEN Put(dbRec, <<tcall[k].id, tcall[k].s>>, RecordRow(tcall[k].rec))
                   ELSE dbRec
    /\ tcall' = [tcall EXCEPT ![k] = TeacherDone(tcall[k], 200)]
    /\ UNCHANGED <<acall, hcall, hookWrites, now, nextId, sessVars, verVars, dbUsers,
                   dbAtt, sweepVars>>

\* update_attendance_record(target_record)
LiveRecordWrite(k) ==
    /\ TeacherCall(k, {"live_accept", "live_fail"}, "loaded")
    /\ rRecord' = Put(rRecord, <<tcall[k].id, tcall[k].s>>, tcall[k].rec)
    /\ tcall' = [tcall EXCEPT ![k] = TeacherDone(tcall[k], 200)]
    /\ UNCHANGED <<acall, hcall, hookWrites, now, nextId, sessVars, verVars, dbVars,
                   sweepVars>>

\* add_student_to_historical_attendance: get_attendance_by_id; no row raises
\* ServiceError (HTTP 400)
HistoricalAddCheck(k) ==
    /\ TeacherCall(k, {"historical_add"}, "owner")
    /\ tcall' = [tcall EXCEPT ![k] =
           IF get_attendance_by_id(tcall[k].id) = None THEN TeacherDone(tcall[k], 400)
           ELSE [tcall[k] EXCEPT !.stage = "users"]]
    /\ UNCHANGED <<acall, hcall, hookWrites, now, nextId, storeVars, dbVars, sweepVars>>

\* db_client.add_users([student])
HistoricalAddUsers(k) ==
    /\ TeacherCall(k, {"historical_add"}, "users")
    /\ add_users({tcall[k].s})
    /\ tcall' = [tcall EXCEPT ![k] = [tcall[k] EXCEPT !.stage = "record"]]
    /\ UNCHANGED <<acall, hcall, hookWrites, now, nextId, storeVars, dbAtt, dbRec,
                   sweepVars>>

\* new_record = AttendanceRecord(...) and db_client.add_attendance_records
HistoricalAddRecord(k) ==
    /\ TeacherCall(k, {"historical_add"}, "record")
    /\ LET c == tcall[k]
           new_record == [att |-> c.att, time |-> IF c.att THEN now ELSE NoTime,
                          reason |-> IF c.att THEN None ELSE MANUAL]
       IN add_attendance_records(c.id, [s \in {c.s} |-> new_record])
    /\ tcall' = [tcall EXCEPT ![k] = TeacherDone(tcall[k], 201)]
    /\ UNCHANGED <<acall, hcall, hookWrites, now, nextId, storeVars, dbUsers, dbAtt,
                   sweepVars>>

\* accept_historical_attendance_record / fail_historical_attendance_record:
\* UPDATE AttendanceRecords SET ... WHERE attendance_id = $1 AND student_number = $2
HistoricalUpdate(k) ==
    /\ TeacherCall(k, {"historical_accept", "historical_fail"}, "owner")
    /\ LET c == tcall[k]
           row == IF c.op = "historical_accept"
                     THEN [att |-> TRUE, time |-> now, reason |-> None,
                           is_deleted |-> FALSE, deletion_reason |-> None,
                           deletion_time |-> NoTime]
                     ELSE [att |-> FALSE, time |-> NoTime, reason |-> MANUAL,
                           is_deleted |-> FALSE, deletion_reason |-> None,
                           deletion_time |-> NoTime]
       IN dbRec' = IF <<c.id, c.s>> \in DOMAIN dbRec
                      THEN Put(dbRec, <<c.id, c.s>>, row) ELSE dbRec
    /\ tcall' = [tcall EXCEPT ![k] = TeacherDone(tcall[k], 200)]
    /\ UNCHANGED <<acall, hcall, hookWrites, now, nextId, storeVars, dbUsers, dbAtt,
                   sweepVars>>

\* the reason a delete request carries (AttendanceDeleteRequest.reason,
\* AttendanceRecordDeleteRequest.reason)
DELETE_REASON == <<"DELETE_REASON">>

\* get_attendances: SELECT ... WHERE teacher_school_number = $1 AND is_deleted = FALSE
get_attendances(t) ==
    {id \in DOMAIN dbAtt : dbAtt[id].teacher = t /\ ~dbAtt[id].is_deleted}

\* db_client.get_attendance_records, as get_historical_attendance_records
\* calls it: SELECT ... WHERE attendance_id = $1 AND is_deleted = FALSE
get_historical_attendance_records(id) ==
    {s \in Students : <<id, s>> \in DOMAIN dbRec /\ ~dbRec[<<id, s>>].is_deleted}

\* faulty variant: the row is removed from the table
DeleteAttendance_RemovesRow(k) ==
    /\ TeacherCall(k, {"delete_attendance"}, "owner")
    /\ dbAtt' = Del(dbAtt, {tcall[k].id})
    /\ tcall' = [tcall EXCEPT ![k] = TeacherDone(tcall[k], 204)]
    /\ UNCHANGED <<acall, hcall, hookWrites, now, nextId, storeVars, dbUsers, dbRec,
                   sweepVars>>

\* delete_attendance: UPDATE Attendances SET is_deleted = TRUE,
\* deletion_reason = $2, deletion_time = $3 WHERE attendance_id = $1
DeleteAttendance(k) ==
    /\ TeacherCall(k, {"delete_attendance"}, "owner")
    /\ dbAtt' = IF tcall[k].id \in DOMAIN dbAtt
                   THEN [dbAtt EXCEPT ![tcall[k].id].is_deleted = TRUE,
                                      ![tcall[k].id].deletion_reason = DELETE_REASON,
                                      ![tcall[k].id].deletion_time = now]
                   ELSE dbAtt
    /\ tcall' = [tcall EXCEPT ![k] = TeacherDone(tcall[k], 204)]
    /\ UNCHANGED <<acall, hcall, hookWrites, now, nextId, storeVars, dbUsers, dbRec,
                   sweepVars>>

\* delete_student_from_attendance: UPDATE AttendanceRecords SET is_deleted =
\* TRUE, deletion_reason = $3, deletion_time = $4 ... ; the row count of
\* "UPDATE n" is returned, and 0 is HTTP 404
DeleteRecord(k) ==
    /\ TeacherCall(k, {"delete_record"}, "owner")
    /\ LET key == <<tcall[k].id, tcall[k].s>>
       IN IF key \in DOMAIN dbRec
             THEN /\ dbRec' = [dbRec EXCEPT ![key].is_deleted = TRUE,
                                            ![key].deletion_reason = DELETE_REASON,
                                            ![key].deletion_time = now]
                  /\ tcall' = [tcall EXCEPT ![k] = TeacherDone(tcall[k], 204)]
             ELSE /\ dbRec' = dbRec
                  /\ tcall' = [tcall EXCEPT ![k] = TeacherDone(tcall[k], 404)]
    /\ UNCHANGED <<acall, hcall, hookWrites, now, nextId, storeVars, dbUsers, dbAtt,
                   sweepVars>>

\* a store call of the service raised: ServiceError is HTTP 400;
\* delete_attendance's endpoint has no handler for it (HTTP 500)
TeacherStoreFails(k) ==
    /\ \/ TeacherCall(k, OwnerCheckedOps \ {"finish"}, "owner")
       \/ TeacherCall(k, {"live_accept", "live_fail"}, "loaded")
       \/ TeacherCall(k, {"historical_add"}, "users")
       \/ TeacherCall(k, {"historical_add"}, "record")
    /\ tcall' = [tcall EXCEPT ![k] =
           TeacherDone(tcall[k], IF tcall[k].op = "delete_attendance" THEN 500 ELSE 400)]
    /\ UNCHANGED <<acall, hcall, hookWrites, now, nextId, storeVars, dbVars, sweepVars>>

\* the response is sent
TeacherReturn(k) ==
    /\ tcall[k].op = "done"
    /\ tcall' = [tcall EXCEPT ![k] = IdleCall]
    /\ UNCHANGED <<acall, hcall, hookWrites, now, nextId, storeVars, dbVars, sweepVars>>

\* ------------------------------------------------- unified_persistence_task
SweepLocalsCleared ==
    /\ swSess' = None
    /\ swRecs' = <<>>

\* now = datetime.now(); scan_iter("attendance_session:*") starts.  SCAN yields
\* every key that is there for the whole scan; a key that appears meanwhile
\* may or may not be yielded.
SweepBegin ==
    /\ swPc = "idle"
    /\ swPc' = "scan"
    /\ swNow' = now
    /\ swTodo' = DOMAIN rSession
    /\ SweepLocalsCleared
    /\ UNCHANGED <<now, nextId, storeVars, dbVars, callVars>>

\* faulty variant: a session that ends exactly when the pass started is taken
SweepGet_AtStart(id) ==
    /\ swPc = "scan"
    /\ id \in swTodo \cup DOMAIN rSession
    /\ swTodo' = swTodo \ {id}
    /\ IF id \in DOMAIN rSession /\ ~(rSession[id].end_time > swNow)
          THEN /\ swSess' = Some(rSession[id])
               /\ swPc' = "add_teacher"
          ELSE UNCHANGED <<swSess, swPc>>
    /\ UNCHANGED <<now, nextId, storeVars, dbVars, callVars, swNow, swRecs>>

\* the next key: GET, `if not session_json: continue`,
\* `if end_time >= now: continue`, else go on to persist it
SweepGet(id) ==
    /\ swPc = "scan"
    /\ id \in swTodo \cup DOMAIN rSession
    /\ swTodo' = swTodo \ {id}
    /\ IF id \in DOMAIN rSession /\ ~(rSession[id].end_time >= swNow)
          THEN /\ swSess' = Some(rSession[id])
               /\ swPc' = "add_teacher"
          ELSE UNCHANGED <<swSess, swPc>>
    /\ UNCHANGED <<now, nextId, storeVars, dbVars, callVars, swNow, swRecs>>

\* db_client.add_users([teacher_user])
SweepAddTeacher ==
    /\ swPc = "add_teacher"
    /\ add_users({swSess[1].teacher})
    /\ swPc' = "get_records"
    /\ UNCHANGED <<now, nextId, storeVars, dbAtt, dbRec, callVars, swNow, swTodo,
                   swSess, swRecs>>

\* redis_client.get_attendance_records(attendance_id)
SweepGetRecords ==
    /\ swPc = "get_records"
    /\ swRecs' = get_attendance_records(swSess[1].id)
    /\ swPc' = IF DOMAIN swRecs' = {} THEN "add_attendance" ELSE "add_students"
    /\ UNCHANGED <<now, nextId, storeVars, dbVars, callVars, swNow, swTodo, swSess>>

\* db_client.add_users(students_to_upsert)
SweepAddStudents ==
    /\ swPc = "add_students"
    /\ add_users(DOMAIN swRecs)
    /\ swPc' = "add_attendance"
    /\ UNCHANGED <<now, nextId, storeVars, dbAtt, dbRec, callVars, swNow, swTodo,
                   swSess, swRecs>>

\* db_client.add_attendances([attendance_to_db])
SweepAddAttendance ==
    /\ swPc = "add_attendance"
    /\ add_attendances(swSess[1])
    /\ swPc' = IF DOMAIN swRecs = {} THEN "delete_session" ELSE "add_records"
    /\ UNCHANGED <<now, nextId, storeVars, dbUsers, dbRec, callVars, swNow, swTodo,
                   swSess, swRecs>>

\* db_client.add_attendance_records(records_to_db)
SweepAddRecords ==
    /\ swPc = "add_records"
    /\ add_attendance_records(swSess[1].id, swRecs)
    /\ swPc' = "delete_session"
    /\ UNCHANGED <<now, nextId, storeVars, dbUsers, dbAtt, callVars, swNow, swTodo,
                   swSess, swRecs>>

\* redis_client.delete_attendance_session(attendance_session)
SweepDeleteSession ==
    /\ swPc = "delete_session"
    /\ delete_attendance_session(swSess[1])
    /\ IF DOMAIN swRecs = {}
          THEN swPc' = "scan" /\ SweepLocalsCleared
          ELSE swPc' = "delete_records" /\ UNCHANGED <<swSess, swRecs>>
    /\ UNCHANGED <<now, nextId, rRecord, verVars, dbVars, callVars, swNow, swTodo>>

\* faulty variant: every attendance_records:* key is deleted
SweepDeleteRecords_AllRecords ==
    /\ swPc = "delete_records"
    /\ rRecord' = <<>>
    /\ swPc' = "scan"
    /\ SweepLocalsCleared
    /\ UNCHANGED <<now, nextId, sessVars, verVars, dbVars, callVars,
                   swNow, swTodo>>

\* redis_client._redis.delete(*record_keys_to_delete)
SweepDeleteRecords ==
    /\ swPc = "delete_records"
    /\ rRecord' = Del(rRecord, {<<swSess[1].id, s>> : s \in DOMAIN swRecs})
    /\ swPc' = "scan"
    /\ SweepLocalsCleared
    /\ UNCHANGED <<now, nextId, sessVars, verVars, dbVars, callVars,
                   swNow, swTodo>>

SweepWorking ==
    swPc \in {"add_teacher", "get_records", "add_students", "add_attendance",
              "add_records", "delete_session", "delete_records"}

\* faulty variant: the exception leaves the loop and ends the pass
SweepStepFails_EndsPass ==
    /\ SweepWorking
    /\ swPc' = "idle"
    /\ swNow' = 0
    /\ swTodo' = {}
    /\ SweepLocalsCleared
    /\ UNCHANGED <<now, nextId, storeVars, dbVars, callVars>>

\* a store call of the try block raised: `except Exception` logs, and the loop
\* goes on with the next key
SweepStepFails ==
    /\ SweepWorking
    /\ swPc' = "scan"
    /\ SweepLocalsCleared
    /\ UNCHANGED <<now, nextId, storeVars, dbVars, callVars, swNow, swTodo>>

\* scan_iter is exhausted: the task returns until the scheduler's next run
SweepEnd ==
    /\ swPc = "scan"
    /\ swTodo = {}
    /\ swPc' = "idle"
    /\ swNow' = 0
    /\ UNCHANGED <<now, nextId, storeVars, dbVars, callVars, swTodo, swSess, swRecs>>

\* the task dies where it is (the process is killed, or scan_iter itself
\* raises outside the try block); the scheduler starts it afresh later
SweepCrash ==
    /\ swPc # "idle"
    /\ swPc' = "idle"
    /\ swNow' = 0
    /\ swTodo' = {}
    /\ SweepLocalsCleared
    /\ UNCHANGED <<now, nextId, storeVars, dbVars, callVars>>

\* ------------------------------------------- StudentService.attend_to_attendance
NoReason == None
WIFI_FAILED == <<"WIFI_FAILED">>
IMAGE_MISSING == <<"FACE_VERIFICATION_REQUIRED_BUT_IMAGE_MISSING">>
REFERENCE_IMAGE_NOT_FOUND == <<"REFERENCE_IMAGE_NOT_FOUND">>
SUBMISSION_FAILED == <<"FACE_VERIFICATION_SUBMISSION_FAILED">>
PENDING == <<"FACE_RECOGNITION_PENDING">>

\* faulty variant: the attendance time is never set
NewRecord_NoTime(reason) ==
    [att |-> reason = NoReason, time |-> NoTime, reason |-> reason]

\* new_record = AttendanceRecordRedis(is_attended = fail_reason is None,
\* attendance_time = now if attended else None, fail_reason = fail_reason)
NewRecord(reason) ==
    [att |-> reason = NoReason,
     time |-> IF reason = NoReason THEN now ELSE NoTime,
     reason |-> reason]

AttendCall(k, stage) == acall[k].op = "attend" /\ acall[k].stage = stage

\* the call ends with ServiceError (HTTP 400) and writes nothing
AttendRaises(k) == acall' = [acall EXCEPT ![k] = IdleCall]

\* faulty variant: a session whose end_time equals the current time is still
\* accepted
AttendGetSession_EndsLate(k, s, id, student_ip, photo) ==
    /\ FreeSlot(acall, k)
    /\ id \in DOMAIN rSession
    /\ ~(rSession[id].end_time < now)
    /\ acall' = [acall EXCEPT ![k] =
           [op |-> "attend", stage |-> "session", s |-> s, id |-> id,
            sec |-> rSession[id].sec, ip |-> rSession[id].ip,
            student_ip |-> student_ip, photo |-> photo]]
    /\ UNCHANGED <<now, nextId, storeVars, dbVars, tcall, hcall, hookWrites, sweepVars>>

\* a request of student s for session id from address student_ip, photo says
\* whether normal_image_bytes was sent: get_attendance_session; a missing or
\* ended session raises ServiceError before the call does anything else
AttendGetSession(k, s, id, student_ip, photo) ==
    /\ FreeSlot(acall, k)
    /\ id \in DOMAIN rSession
    /\ ~(rSession[id].end_time <= now)
    /\ acall' = [acall EXCEPT ![k] =
           [op |-> "attend", stage |-> "session", s |-> s, id |-> id,
            sec |-> rSession[id].sec, ip |-> rSession[id].ip,
            student_ip |-> student_ip, photo |-> photo]]
    /\ UNCHANGED <<now, nextId, storeVars, dbVars, tcall, hcall, hookWrites, sweepVars>>

\* the same request for a session id with no blob, or whose end_time is at
\* or before the current time: the ServiceError is raised and is on its way
\* to the client as HTTP 400
AttendSessionRejected(k, s, id) ==
    /\ FreeSlot(acall, k)
    /\ IF id \in DOMAIN rSession THEN rSession[id].end_time <= now ELSE TRUE
    /\ acall' = [acall EXCEPT ![k] =
           [op |-> "attend", stage |-> "raised", s |-> s, id |-> id,
            detail |-> IF id \notin DOMAIN rSession
                          THEN "This attendance session does not exist."
                          ELSE "This attendance session has already ended."]]
    /\ UNCHANGED <<now, nextId, storeVars, dbVars, tcall, hcall, hookWrites, sweepVars>>

\* the error response has been sent
AttendRejectedReturn(k) ==
    /\ acall[k].op = "attend" /\ acall[k].stage = "raised"
    /\ acall' = [acall EXCEPT ![k] = IdleCall]
    /\ UNCHANGED <<now, nextId, storeVars, dbVars, tcall, hcall, hookWrites, sweepVars>>

\* ipaddress.ip_address(text): the parsed address, or None for ValueError
ip_address(text) ==
    IF text # None /\ text[1] \in {"v4", "v6"}
       THEN Some([family |-> text[1], network |-> text[2], host |-> text[3]])
       ELSE None

\* faulty variant: the network parts are compared without looking at the
\* address families
verify_wifi_FamiliesIgnored(session_text, student_text) ==
    IF session_text = None \/ student_text = None THEN FALSE
    ELSE IF session_text = student_text THEN TRUE
    ELSE LET session_ip == ip_address(session_text)
             student_ip == ip_address(student_text)
         IN IF session_ip = None \/ student_ip = None
               THEN session_text = student_text
            ELSE student_ip[1].network = session_ip[1].network

\* verify_wifi(attendance, ip_address), for the session's address on file
verify_wifi(session_text, student_text) ==
    IF session_text = None \/ student_text = None THEN FALSE
    ELSE IF session_text = student_text THEN TRUE
    ELSE LET session_ip == ip_address(session_text)
             student_ip == ip_address(student_text)
         IN IF session_ip = None \/ student_ip = None
               THEN session_text = student_text
            ELSE IF session_ip[1].family = "v6" /\ student_ip[1].family = "v6"
               THEN student_ip[1].network = session_ip[1].network
            ELSE IF session_ip[1].family = "v4" /\ student_ip[1].family = "v4"
               THEN student_ip[1].network = session_ip[1].network
            ELSE FALSE

\* faulty variant: a pending record does not stop a new attempt
AttendGetRecord_RetriesPending(k) ==
    /\ AttendCall(k, "session")
    /\ LET c == acall[k]
           wifi == ~(c.student_ip = None \/ ~verify_wifi(c.ip, c.student_ip))
           existing == Get(rRecord, <<c.id, c.s>>)
           write(reason) == [op |-> "attend", stage |-> "write", s |-> c.s,
                             id |-> c.id, rec |-> NewRecord(reason)]
       IN IF existing # None /\ existing[1].att
             THEN AttendRaises(k)
          ELSE IF c.sec >= 2 /\ ~wifi
             THEN acall' = [acall EXCEPT ![k] = write(WIFI_FAILED)]
          ELSE IF c.sec = 3 /\ ~c.photo
             THEN acall' = [acall EXCEPT ![k] = write(IMAGE_MISSING)]
          ELSE IF c.sec = 3
             THEN acall' = [acall EXCEPT ![k] = [c EXCEPT !.stage = "user_session"]]
          ELSE acall' = [acall EXCEPT ![k] = write(NoReason)]
    /\ UNCHANGED <<now, nextId, storeVars, dbVars, tcall, hcall, hookWrites, sweepVars>>

\* get_attendance_record_by_id and the checks up to the next awaited call
AttendGetRecord(k) ==
    /\ AttendCall(k, "session")
    /\ LET c == acall[k]
           wifi == ~(c.student_ip = None \/ ~verify_wifi(c.ip, c.student_ip))
           existing == Get(rRecord, <<c.id, c.s>>)
           write(reason) == [op |-> "attend", stage |-> "write", s |-> c.s,
                             id |-> c.id, rec |-> NewRecord(reason)]
       IN IF existing # None /\ (existing[1].att \/ existing[1].reason = PENDING)
             THEN AttendRaises(k)
          ELSE IF c.sec >= 2 /\ ~wifi
             THEN acall' = [acall EXCEPT ![k] = write(WIFI_FAILED)]
          ELSE IF c.sec = 3 /\ ~c.photo
             THEN acall' = [acall EXCEPT ![k] = write(IMAGE_MISSING)]
          ELSE IF c.sec = 3
             THEN acall' = [acall EXCEPT ![k] = [c EXCEPT !.stage = "user_session"]]
          ELSE acall' = [acall EXCEPT ![k] = write(NoReason)]
    /\ UNCHANGED <<now, nextId, storeVars, dbVars, tcall, hcall, hookWrites, sweepVars>>

\* faulty variant: the correlation entry is written before the reference
\* image is looked up
AttendGetUserSession_MapsFirst(k, hasRef) ==
    /\ AttendCall(k, "user_session")
    /\ nextVid <= MaxVerifs
    /\ verif' = Put(verif, nextVid, <<acall[k].s, acall[k].id>>)
    /\ nextVid' = nextVid + 1
    /\ LET c == acall[k]
       IN acall' = [acall EXCEPT ![k] =
              IF hasRef THEN [c EXCEPT !.stage = "post"] @@ [vid |-> nextVid]
              ELSE [op |-> "attend", stage |-> "write", s |-> c.s, id |-> c.id,
                    rec |-> NewRecord(REFERENCE_IMAGE_NOT_FOUND)]]
    /\ UNCHANGED <<now, nextId, sessVars, rRecord, dbVars, tcall, hcall, hookWrites,
                   sweepVars>>

\* get_user_session: hasRef says whether the student's session holds an
\* image_url; with one the reference image is downloaded next
AttendGetUserSession(k, hasRef) ==
    /\ AttendCall(k, "user_session")
    /\ LET c == acall[k]
       IN acall' = [acall EXCEPT ![k] =
              IF hasRef THEN [c EXCEPT !.stage = "map"]
              ELSE [op |-> "attend", stage |-> "write", s |-> c.s, id |-> c.id,
                    rec |-> NewRecord(REFERENCE_IMAGE_NOT_FOUND)]]
    /\ UNCHANGED <<now, nextId, storeVars, dbVars, tcall, hcall, hookWrites, sweepVars>>

\* faulty variant: the verification id is handed to the verifier without the
\* correlation entry being stored
AttendMap_NoEntry(k) ==
    /\ AttendCall(k, "map")
    /\ nextVid <= MaxVerifs
    /\ verif' = verif
    /\ nextVid' = nextVid + 1
    /\ acall' = [acall EXCEPT ![k] = [acall[k] EXCEPT !.stage = "post"] @@ [vid |-> nextVid]]
    /\ UNCHANGED <<now, nextId, sessVars, rRecord, dbVars, tcall, hcall, hookWrites,
                   sweepVars>>

\* submit_face_verification_job: verification_id = uuid4() and
\* map_verification_to_user (SET verification:{id} "student:attendance_id" EX 300)
AttendMap(k) ==
    /\ AttendCall(k, "map")
    /\ nextVid <= MaxVerifs
    /\ verif' = Put(verif, nextVid, <<acall[k].s, acall[k].id>>)
    /\ nextVid' = nextVid + 1
    /\ acall' = [acall EXCEPT ![k] = [acall[k] EXCEPT !.stage = "post"] @@ [vid |-> nextVid]]
    /\ UNCHANGED <<now, nextId, sessVars, rRecord, dbVars, tcall, hcall, hookWrites,
                   sweepVars>>

\* the image download, get_user_session or map_verification_to_user raised:
\* the outer `except Exception` turns it into ServiceError
AttendPrepareFails(k) ==
    /\ AttendCall(k, "user_session") \/ AttendCall(k, "map")
    /\ AttendRaises(k)
    /\ UNCHANGED <<now, nextId, storeVars, dbVars, tcall, hcall, hookWrites, sweepVars>>

\* client.post(.../verify-face-async) returned 2xx: "SUBMITTED", and
\* fail_reason = "FACE_RECOGNITION_PENDING"
AttendPostAccepted(k) ==
    /\ AttendCall(k, "post")
    /\ acall' = [acall EXCEPT ![k] =
           [op |-> "attend", stage |-> "write", s |-> acall[k].s, id |-> acall[k].id,
            rec |-> NewRecord(PENDING)]]
    /\ UNCHANGED <<now, nextId, storeVars, dbVars, tcall, hcall, hookWrites, sweepVars>>

\* the post raised (HTTPStatusError or any other exception)
AttendPostFails(k) ==
    /\ AttendCall(k, "post")
    /\ acall' = [acall EXCEPT ![k] = [acall[k] EXCEPT !.stage = "rollback"]]
    /\ UNCHANGED <<now, nextId, storeVars, dbVars, tcall, hcall, hookWrites, sweepVars>>

\* faulty variant: the except branch raises VerificationError without deleting
\* the correlation entry
AttendRollback_KeepsEntry(k) ==
    /\ AttendCall(k, "rollback")
    /\ verif' = verif
    /\ acall' = [acall EXCEPT ![k] =
           [op |-> "attend", stage |-> "write", s |-> acall[k].s, id |-> acall[k].id,
            rec |-> NewRecord(SUBMISSION_FAILED)]]
    /\ UNCHANGED <<now, nextId, sessVars, rRecord, nextVid, dbVars, tcall, hcall,
                   hookWrites, sweepVars>>

\* the except branch: delete_verification_mapping, raise VerificationError,
\* and fail_reason = "FACE_VERIFICATION_SUBMISSION_FAILED"
AttendRollback(k) ==
    /\ AttendCall(k, "rollback")
    /\ verif' = Del(verif, {acall[k].vid})
    /\ acall' = [acall EXCEPT ![k] =
           [op |-> "attend", stage |-> "write", s |-> acall[k].s, id |-> acall[k].id,
            rec |-> NewRecord(SUBMISSION_FAILED)]]
    /\ UNCHANGED <<now, nextId, sessVars, rRecord, nextVid, dbVars, tcall, hcall,
                   hookWrites, sweepVars>>

\* delete_verification_mapping raised inside the except branch: that is no
\* VerificationError, so the outer handler raises ServiceError
AttendRollbackFails(k) ==
    /\ AttendCall(k, "rollback")
    /\ AttendRaises(k)
    /\ UNCHANGED <<now, nextId, storeVars, dbVars, tcall, hcall, hookWrites, sweepVars>>

\* add_attendance_record(new_record)
AttendWrite(k) ==
    /\ AttendCall(k, "write")
    /\ rRecord' = Put(rRecord, <<acall[k].id, acall[k].s>>, acall[k].rec)
    /\ acall' = [acall EXCEPT ![k] = IdleCall]
    /\ UNCHANGED <<now, nextId, sessVars, verVars, dbVars, tcall, hcall, hookWrites,
                   sweepVars>>

\* add_attendance_record raised
AttendWriteFails(k) ==
    /\ AttendCall(k, "write")
    /\ AttendRaises(k)
    /\ UNCHANGED <<now, nextId, storeVars, dbVars, tcall, hcall, hookWrites, sweepVars>>

\* the key verification:{id} reaches its TTL of 300 s
VerifExpire(v) ==
    /\ v \in DOMAIN verif
    /\ verif' = Del(verif, {v})
    /\ UNCHANGED <<now, nextId, sessVars, rRecord, nextVid, dbVars, callVars, sweepVars>>

\* ------------------------------------- POST /webhooks/verification-result/{id}
\* settings.WEBHOOK_SECRET_KEY, and a key that is not it
WEBHOOK_SECRET_KEY == "secret"
OtherKey == "other"

\* request bodies:
\*   "not_json"           bytes json.loads rejects
\*   "json_array"         []                                   (JSON, no object)
\*   "no_overall_result"  {}
\*   "result_not_object"  {"overall_result": 5}
\*   "missing_field"      {"overall_result": {"reason": "r"}}
\*   "passed"             {"overall_result": {"verification_passed": true, "reason": "r"}}
\*   "failed"             {"overall_result": {"verification_passed": false, "reason": "r"}}
Bodies == {"not_json", "json_array", "no_overall_result", "result_not_object",
           "missing_field", "passed", "failed"}

\* hmac.new(key, msg=raw_body, digestmod=sha256).hexdigest(): a value that
\* determines the key and the body
HmacSha256(key, body) == <<"hex", key, body>>

\* X-Webhook-Signature values sent with a body: its digest under the secret,
\* the digest of another body, a digest under another key, and a header with
\* a non-ASCII character
NonAscii == <<"non_ascii">>
Signatures(body) ==
    {HmacSha256(WEBHOOK_SECRET_KEY, body), HmacSha256(OtherKey, body), NonAscii,
     HmacSha256(WEBHOOK_SECRET_KEY, IF body = "passed" THEN "failed" ELSE "passed")}

\* the headers of senders that hold one of the keys and sign what they send
SignaturesBy(keys, body) == {HmacSha256(key, body) : key \in keys}

\* hmac.compare_digest(expected_signature, x_webhook_signature): "raises" for
\* a str that is not ASCII (TypeError)
compare_digest(expected, given) ==
    IF given = NonAscii THEN "raises"
    ELSE IF expected = given THEN "equal" ELSE "differ"

\* data = json.loads(raw_body); VerificationResultPayload(**data.get('overall_result', {}))
\* under `except (json.JSONDecodeError, ValidationError, KeyError)`: the parsed
\* payload, or the status the request ends with.  list.get is an AttributeError
\* and **5 a TypeError, which the except clause does not catch.
ParsePayload(body) ==
    CASE body = "not_json" -> [status |-> 422]
      [] body = "json_array" -> [status |-> 500]
      [] body = "no_overall_result" -> [status |-> 422]
      [] body = "result_not_object" -> [status |-> 500]
      [] body = "missing_field" -> [status |-> 422]
      [] body = "passed" -> [status |-> 0, passed |-> TRUE, reason |-> "r"]
      [] body = "failed" -> [status |-> 0, passed |-> FALSE, reason |-> "r"]

\* faulty variant: a missing key is reported as an entry without its parts
get_user_and_attendance_for_verification_NoNone(v) ==
    IF v \notin DOMAIN verif THEN Some([s |-> "", id |-> 0])
    ELSE IF Len(verif[v]) # 2 THEN None
    ELSE Some([s |-> verif[v][1], id |-> verif[v][2]])

\* get_user_and_attendance_for_verification: GET, split(':'), two parts or None
get_user_and_attendance_for_verification(v) ==
    IF v \notin DOMAIN verif THEN None
    ELSE IF Len(verif[v]) # 2 THEN None
    ELSE Some([s |-> verif[v][1], id |-> verif[v][2]])

\* faulty variant: a passed verdict leaves the old fail_reason in place
ApplyVerdict_KeepsReason(rec, passed, reason) ==
    IF passed THEN [rec EXCEPT !.att = TRUE, !.time = now]
    ELSE [rec EXCEPT !.att = FALSE, !.reason = <<"FACE_VERIFICATION_FAILED", reason>>]

\* the record with the verdict applied (webhooks.py, "Kaydi guncelle")
ApplyVerdict(rec, passed, reason) ==
    IF passed THEN [rec EXCEPT !.att = TRUE, !.time = now, !.reason = NoReason]
    ELSE [rec EXCEPT !.att = FALSE, !.reason = <<"FACE_VERIFICATION_FAILED", reason>>]

HookCall(k, stage) == hcall[k].op = "hook" /\ hcall[k].stage = stage

\* the response of a delivery, until the caller has it
HookDone(code) == [op |-> "hook", stage |-> "done", code |-> code]

\* a delivery for verification id v arrives with a body and a signature
\* header: raw_body = await request.body()
HookReceive(k, v, body, sig) ==
    /\ FreeSlot(hcall, k)
    /\ hcall' = [hcall EXCEPT ![k] =
           [op |-> "hook", stage |-> "received", vid |-> v, body |-> body, sig |-> sig]]
    /\ UNCHANGED <<now, nextId, storeVars, dbVars, tcall, acall, hookWrites, sweepVars>>

\* the signature check, the parse, and get_user_and_attendance_for_verification
HookResolve(k) ==
    /\ HookCall(k, "received")
    /\ LET v == hcall[k].vid
           body == hcall[k].body
           cmp == compare_digest(HmacSha256(WEBHOOK_SECRET_KEY, body), hcall[k].sig)
           payload == ParsePayload(body)
           data == get_user_and_attendance_for_verification(v)
       IN hcall' = [hcall EXCEPT ![k] =
              IF cmp = "raises" THEN HookDone(500)
              ELSE IF cmp = "differ" THEN HookDone(403)
              ELSE IF payload.status # 0 THEN HookDone(payload.status)
              ELSE IF data = None THEN HookDone(200)
              ELSE [op |-> "hook", stage |-> "resolved", vid |-> v, s |-> data[1].s,
                    id |-> data[1].id, passed |-> payload.passed,
                    reason |-> payload.reason]]
    /\ UNCHANGED <<now, nextId, storeVars, dbVars, tcall, acall, hookWrites, sweepVars>>

\* get_attendance_record_by_id, and the verdict applied to the object read
HookGetRecord(k) ==
    /\ HookCall(k, "resolved")
    /\ LET c == hcall[k]
           got == Get(rRecord, <<c.id, c.s>>)
       IN hcall' = [hcall EXCEPT ![k] =
              IF got = None THEN [op |-> "hook", stage |-> "dangling", vid |-> c.vid]
              ELSE [op |-> "hook", stage |-> "loaded", vid |-> c.vid, s |-> c.s,
                    id |-> c.id, passed |-> c.passed,
                    rec |-> ApplyVerdict(got[1], c.passed, c.reason)]]
    /\ UNCHANGED <<now, nextId, storeVars, dbVars, tcall, acall, hookWrites, sweepVars>>

\* faulty variant: the dangling entry is left in place
HookDeleteDangling_KeepsEntry(k) ==
    /\ HookCall(k, "dangling")
    /\ hcall' = [hcall EXCEPT ![k] = HookDone(404)]
    /\ UNCHANGED <<now, nextId, storeVars, dbVars, tcall, acall, hookWrites, sweepVars>>

\* no record: delete_verification_mapping, then HTTP 404
HookDeleteDangling(k) ==
    /\ HookCall(k, "dangling")
    /\ verif' = Del(verif, {hcall[k].vid})
    /\ hcall' = [hcall EXCEPT ![k] = HookDone(404)]
    /\ UNCHANGED <<now, nextId, sessVars, rRecord, nextVid, dbVars, tcall, acall,
                   hookWrites, sweepVars>>

\* faulty variant: the verdict is also written through to the durable row
HookWrite_WritesThrough(k) ==
    /\ HookCall(k, "loaded")
    /\ rRecord' = Put(rRecord, <<hcall[k].id, hcall[k].s>>, hcall[k].rec)
    /\ dbRec' = Put(dbRec, <<hcall[k].id, hcall[k].s>>, RecordRow(hcall[k].rec))
    /\ hcall' = [hcall EXCEPT ![k] =
           [op |-> "hook", stage |-> "written", vid |-> hcall[k].vid]]
    /\ hookWrites' = [hookWrites EXCEPT ![hcall[k].vid] = IF @ < 2 THEN @ + 1 ELSE @]
    /\ UNCHANGED <<now, nextId, sessVars, verVars, dbUsers, dbAtt, tcall, acall, sweepVars>>

\* update_attendance_record(attendance_record)
HookWrite(k) ==
    /\ HookCall(k, "loaded")
    /\ rRecord' = Put(rRecord, <<hcall[k].id, hcall[k].s>>, hcall[k].rec)
    /\ hcall' = [hcall EXCEPT ![k] =
           [op |-> "hook", stage |-> "written", vid |-> hcall[k].vid]]
    /\ hookWrites' = [hookWrites EXCEPT ![hcall[k].vid] = IF @ < 2 THEN @ + 1 ELSE @]
    /\ UNCHANGED <<now, nextId, sessVars, verVars, dbVars, tcall, acall, sweepVars>>

\* delete_verification_mapping, then {"status": "success"}
HookDeleteMapping(k) ==
    /\ HookCall(k, "written")
    /\ verif' = Del(verif, {hcall[k].vid})
    /\ hcall' = [hcall EXCEPT ![k] = HookDone(200)]
    /\ UNCHANGED <<now, nextId, sessVars, rRecord, nextVid, dbVars, tcall, acall,
                   hookWrites, sweepVars>>

\* a store call of the handler raised: the request ends there with the
\* server's error response
HookStepFails(k) ==
    /\ hcall[k].op = "hook"
    /\ hcall[k].stage \in {"received", "resolved", "dangling", "loaded", "written"}
    /\ hcall' = [hcall EXCEPT ![k] = [op |-> "hook", stage |-> "failed"]]
    /\ UNCHANGED <<now, nextId, storeVars, dbVars, tcall, acall, hookWrites, sweepVars>>

\* the caller has the response
HookReturn(k) ==
    /\ HookCall(k, "done") \/ HookCall(k, "failed")
    /\ hcall' = [hcall EXCEPT ![k] = IdleCall]
    /\ UNCHANGED <<now, nextId, storeVars, dbVars, tcall, acall, hookWrites, sweepVars>>

\* ------------------------------- StudentService.find_active_sessions_by_name
\* get_attendance_sessions_by_name, the gather of get_attendance_session over
\* the ids read from the index: the blobs that exist, None results dropped
get_attendance_sessions_by_name(ids) ==
    {rSession[id] : id \in ids \cap DOMAIN rSession}

active_sessions_KeepsExpired(sessions) ==
    sessions

\* the filter of find_active_sessions_by_name: end_time > now
active_sessions(sessions) ==
    {sess \in sessions : sess.end_time > now}

\* SMEMBERS attendance_index:name:{l}:{name}; an empty set returns [] at once
FindMembers(k, l, name) ==
    /\ FreeSlot(acall, k)
    /\ acall' = [acall EXCEPT ![k] =
           IF idxName[<<l, name>>] = {}
           THEN [op |-> "find", stage |-> "done", key |-> <<l, name>>,
                 ids |-> {}, result |-> {}]
           ELSE [op |-> "find", stage |-> "members", key |-> <<l, name>>,
                 ids |-> idxName[<<l, name>>]]]
    /\ UNCHANGED <<tcall, hcall, hookWrites, now, nextId, storeVars, dbVars, sweepVars>>

\* the GETs, then datetime.now() and the filter; the list is the return value
FindGet(k) ==
    /\ acall[k].op = "find" /\ acall[k].stage = "members"
    /\ acall' = [acall EXCEPT ![k] =
           [op |-> "find", stage |-> "done", key |-> acall[k].key,
            ids |-> acall[k].ids,
            result |-> active_sessions(get_attendance_sessions_by_name(acall[k].ids))]]
    /\ UNCHANGED <<tcall, hcall, hookWrites, now, nextId, storeVars, dbVars, sweepVars>>

\* a Redis error: ServiceError("Dersler aranırken bir sunucu hatası oluştu.")
FindFails(k) ==
    /\ acall[k].op = "find" /\ acall[k].stage = "members"
    /\ acall' = [acall EXCEPT ![k] =
           [op |-> "find", stage |-> "failed", key |-> acall[k].key]]
    /\ UNCHANGED <<tcall, hcall, hookWrites, now, nextId, storeVars, dbVars, sweepVars>>

\* the response has been sent
FindReturn(k) ==
    /\ acall[k].op = "find" /\ acall[k].stage \in {"done", "failed"}
    /\ acall' = [acall EXCEPT ![k] = IdleCall]
    /\ UNCHANGED <<tcall, hcall, hookWrites, now, nextId, storeVars, dbVars, sweepVars>>

\* ---------------------------------------------------------- specifications
\* the requests of the teachers ts, served in the slots ks; sessions are
\* started with the security options tiers
TeacherStep(ks, ts, ips, tiers) ==
    \E k \in ks :
        \/ \E t \in ts : StartCheck(k, t)
        \/ \E l \in Lessons, ip \in ips, e \in Times, sec \in tiers :
               StartSave(k, l, ip, e, sec)
        \/ StartSaveFails(k)
        \/ \E t \in ts, id \in Ids : FinishVerifyOwner(k, t, id)
        \/ FinishRead(k)
        \/ FinishSave(k)
        \/ FinishSaveFails(k)

\* the owner-checked requests of the teachers ts about the students ss,
\* served in the slots ks
OwnerCheckedStep(ks, ts, ss) ==
    \E k \in ks :
        \/ \E op \in OwnerCheckedOps, t \in ts, id \in Ids, s \in ss :
               \E att \in (IF op = "historical_add" THEN BOOLEAN ELSE {FALSE}) :
                   TeacherReceive(k, op, t, id, s, att)
        \/ TeacherVerifyOwner(k)
        \/ FinishRead(k)
        \/ FinishSave(k)
        \/ LiveRecordRead(k)
        \/ LiveRecordWrite(k)
        \/ HistoricalAddCheck(k)
        \/ HistoricalAddUsers(k)
        \/ HistoricalAddRecord(k)
        \/ HistoricalUpdate(k)
        \/ DeleteAttendance(k)
        \/ DeleteRecord(k)
        \/ TeacherStoreFails(k)
        \/ TeacherReturn(k)

\* find_active_sessions_by_name for the name keys keys, served in the slots ks
FindStep(ks, keys) ==
    \E k \in ks :
        \/ \E key \in keys : FindMembers(k, key[1], key[2])
        \/ FindGet(k)
        \/ FindFails(k)
        \/ FindReturn(k)

\* attend_to_attendance of the students ss from the addresses ips, with a
\* photo or without (photos), served in the slots ks
AttendStep(ks, ss, ips, photos) ==
    \E k \in ks :
        \/ \E s \in ss, id \in Ids, ip \in ips, photo \in photos :
               AttendGetSession(k, s, id, ip, photo)
        \/ AttendGetRecord(k)
        \/ AttendWrite(k)
        \/ AttendWriteFails(k)

\* the tier-3 part of attend_to_attendance
AttendVerifyStep(ks) ==
    \E k \in ks :
        \/ \E hasRef \in BOOLEAN : AttendGetUserSession(k, hasRef)
        \/ AttendMap(k)
        \/ AttendPrepareFails(k)
        \/ AttendPostAccepted(k)
        \/ AttendPostFails(k)
        \/ AttendRollback(k)
        \/ AttendRollbackFails(k)

\* webhook deliveries with the bodies bs, signed with one of the keys, served
\* in the slots ks
HookStep(ks, bs, keys) ==
    \E k \in ks :
        \/ \E v \in VerifIds, b \in bs : \E sig \in SignaturesBy(keys, b) :
               HookReceive(k, v, b, sig)
        \/ HookResolve(k)
        \/ HookGetRecord(k)
        \/ HookDeleteDangling(k)
        \/ HookWrite(k)
        \/ HookDeleteMapping(k)
        \/ HookStepFails(k)
        \/ HookReturn(k)

SweepStep ==
    \/ SweepBegin
    \/ \E id \in Ids : SweepGet(id)
    \/ SweepAddTeacher
    \/ SweepGetRecords
    \/ SweepAddStudents
    \/ SweepAddAttendance
    \/ SweepAddRecords
    \/ SweepDeleteSession
    \/ SweepDeleteRecords
    \/ SweepEnd

\* the sweep of sessions that have no records
SweepSessionStep ==
    \/ SweepBegin
    \/ \E id \in Ids : SweepGet(id)
    \/ SweepAddTeacher
    \/ SweepGetRecords
    \/ SweepAddAttendance
    \/ SweepDeleteSession
    \/ SweepEnd

Next ==
    \/ Tick
    \/ TeacherStep({1}, {"t1"}, {RoomIp}, {1})
    \/ AttendStep({1}, {"s1"}, {FarIp}, {FALSE})
    \/ SweepStep
    \/ SweepStepFails
    \/ SweepCrash

Spec == Init /\ [][Next]_vars

\* the session lifecycle of both teachers with concurrent calls, and the sweep
NextTeachers ==
    \/ Tick
    \/ TeacherStep(TeacherCallSlots, Teachers, {RoomIp}, {1})
    \/ SweepSessionStep

SpecTeachers == Init /\ [][NextTeachers]_vars

\* no call is in flight
NoCalls ==
    /\ \A k \in TeacherCallSlots : tcall[k] = IdleCall
    /\ \A k \in AttendCallSlots : acall[k] = IdleCall
    /\ \A k \in HookCallSlots : hcall[k] = IdleCall

\* passes of the sweep that run alone: requests are served only between
\* passes, and no store call of a pass fails
NextQuiet ==
    \/ swPc = "idle" /\ Tick
    \/ swPc = "idle" /\ TeacherStep({1}, {"t1"}, {RoomIp}, {1, 2})
    \/ swPc = "idle" /\ AttendStep({1}, Students, {NearIp, FarIp}, {FALSE})
    \/ NoCalls /\ SweepStep

SpecQuiet == Init /\ [][NextQuiet]_vars

\* the scheduler runs the sweep again and again (main.py: every 5 minutes),
\* the clock advances, scan_iter yields every key of its snapshot and ends,
\* and a store call that is retried often enough succeeds
NextFair ==
    \/ Tick
    \/ \E t \in {"t1"} : nextId = 1 /\ StartCheck(1, t)
    \/ \E l \in Lessons, e \in Times : StartSave(1, l, RoomIp, e, 1)
    \/ \E t \in {"t1"}, id \in Ids : FinishVerifyOwner(1, t, id)
    \/ FinishRead(1)
    \/ FinishSave(1)
    \/ AttendStep({1}, {"s1"}, {FarIp}, {FALSE})
    \/ SweepStep
    \/ SweepStepFails

Fairness ==
    /\ WF_vars(Tick)
    /\ WF_vars(SweepBegin)
    /\ SF_vars(\E id \in swTodo : SweepGet(id))
    /\ SF_vars(SweepAddTeacher)
    /\ SF_vars(SweepGetRecords)
    /\ SF_vars(SweepAddStudents)
    /\ SF_vars(SweepAddAttendance)
    /\ SF_vars(SweepAddRecords)
    /\ SF_vars(SweepDeleteSession)
    /\ SF_vars(SweepDeleteRecords)
    /\ SF_vars(SweepEnd)

SpecFair == Init /\ [][NextFair]_vars /\ Fairness

\* the network check: one session of tier 1 or 2 started from any address,
\* and attempts from any address
NextWifi ==
    \/ \E t \in {"t1"} : nextId = 1 /\ StartCheck(1, t)
    \/ \E l \in Lessons, ip \in Addresses, sec \in {1, 2} :
           StartSave(1, l, ip, MaxTime, sec)
    \/ AttendStep({1}, Students, Addresses, BOOLEAN)

SpecWifi == Init /\ [][NextWifi]_vars

\* attempts on one tier-3 session: both students, from inside and outside the
\* session's network or without an address, with and without a photo and a
\* reference photo, the verifier accepting or refusing the job
NextTierThree ==
    \/ \E t \in {"t1"} : nextId = 1 /\ StartCheck(1, t)
    \/ \E l \in Lessons : StartSave(1, l, RoomIp, MaxTime, 3)
    \/ AttendStep({1}, Students, {NearIp, FarIp, None}, BOOLEAN)
    \/ AttendVerifyStep({1})

SpecTierThree == Init /\ [][NextTierThree]_vars

\* the teacher API: one session of teacher t1 with a student's record, live
\* and then migrated by the sweep, and the owner-checked requests of both
\* teachers
NextOwner ==
    \/ Tick
    \/ \E t \in {"t1"} : nextId = 1 /\ StartCheck(1, t)
    \/ \E l \in Lessons : StartSave(1, l, RoomIp, 1, 1)
    \/ AttendStep({1}, {"s1"}, {NearIp}, {FALSE})
    \/ NoCalls /\ SweepStep
    \/ swPc = "idle" /\ OwnerCheckedStep({1}, Teachers, {"s1"})

SpecOwner == Init /\ [][NextOwner]_vars

\* pending records: one tier-3 session, a student's attempts of which the
\* first is dispatched to the verifier, the verifier's callback, the expiry
\* of the correlation entry, the teacher's manual accept and fail, the clock,
\* and the sweep once the session has ended, all interleaved
NextPending ==
    \/ Tick
    \/ \E t \in {"t1"} : nextId = 1 /\ StartCheck(1, t)
    \/ \E l \in Lessons : StartSave(1, l, RoomIp, 1, 3)
    \/ AttendStep({1}, {"s1"}, {NearIp}, {TRUE})
    \/ AttendGetUserSession(1, TRUE)
    \/ nextVid = 1 /\ AttendMap(1)
    \/ AttendPostAccepted(1)
    \/ \E v \in VerifIds : VerifExpire(v)
    \/ HookReceive(1, 1, "passed", HmacSha256(WEBHOOK_SECRET_KEY, "passed"))
    \/ HookResolve(1)
    \/ HookGetRecord(1)
    \/ HookDeleteDangling(1)
    \/ HookWrite(1)
    \/ HookDeleteMapping(1)
    \/ HookReturn(1)
    \/ \E op \in {"live_accept", "live_fail"} : TeacherReceive(1, op, "t1", 1, "s1", FALSE)
    \/ TeacherVerifyOwner(1)
    \/ LiveRecordRead(1)
    \/ LiveRecordWrite(1)
    \/ TeacherReturn(1)
    \/ now = MaxTime /\ SweepStep

SpecPending == Init /\ [][NextPending]_vars

\* the verification protocol: tier-3 sessions, attend, the verifier's callbacks
\* (two deliveries may be in flight), and the expiry of correlation entries
NextHook ==
    \/ \E t \in {"t1"} : nextId = 1 /\ StartCheck(1, t)
    \/ \E l \in Lessons : StartSave(1, l, RoomIp, MaxTime, 3)
    \/ AttendStep({1}, {"s1"}, {NearIp}, {TRUE})
    \/ AttendVerifyStep({1})
    \/ HookStep(HookCallSlots, {"passed", "failed"}, {WEBHOOK_SECRET_KEY})
    \/ \E v \in VerifIds : VerifExpire(v)

SpecHook == Init /\ [][NextHook]_vars

\* deliveries of any sender: every body, signed with the secret, with another
\* key, with the digest of another body, or with a non-ASCII header
NextHookAny ==
    \/ \E t \in {"t1"} : nextId = 1 /\ StartCheck(1, t)
    \/ \E l \in Lessons : StartSave(1, l, RoomIp, MaxTime, 3)
    \/ AttendStep({1}, {"s1"}, {NearIp, FarIp, None}, BOOLEAN)
    \/ AttendVerifyStep({1})
    \/ \E v \in VerifIds, b \in Bodies : \E sig \in Signatures(b) : HookReceive(1, v, b, sig)
    \/ HookResolve(1)
    \/ HookGetRecord(1)
    \/ HookDeleteDangling(1)
    \/ HookWrite(1)
    \/ HookDeleteMapping(1)
    \/ HookReturn(1)

SpecHookAny == Init /\ [][NextHookAny]_vars

\* every kind of request next to the sweep: start and finish, attend with the
\* verifier's callback, the teacher's live and historical operations and the
\* two deletes, on a tier-3 session of one teacher with one student (teacher
\* requests are served while the sweep and the webhook are at rest)
NextFrame ==
    \/ Tick
    \/ nextId = 1 /\ StartCheck(1, "t1")
    \/ \E l \in Lessons : StartSave(1, l, RoomIp, 1, 3)
    \/ AttendStep({1}, {"s1"}, {NearIp}, {TRUE})
    \/ AttendGetUserSession(1, TRUE)
    \/ nextVid = 1 /\ AttendMap(1)
    \/ AttendPostAccepted(1)
    \/ \E v \in {0, 1}, b \in {"passed", "failed"} :
           HookReceive(1, v, b, HmacSha256(WEBHOOK_SECRET_KEY, b))
    \/ HookResolve(1)
    \/ HookGetRecord(1)
    \/ HookDeleteDangling(1)
    \/ HookWrite(1)
    \/ HookDeleteMapping(1)
    \/ HookReturn(1)
    \/ swPc = "idle" /\ hcall[1] = IdleCall /\ OwnerCheckedStep({1}, {"t1"}, {"s1"})
    \/ tcall[1] = IdleCall /\ SweepStep

SpecFrame == Init /\ [][NextFrame]_vars

\* the teacher's live accept and fail racing with the sweep: the override is
\* written while the sweep is between its upsert of the session's records
\* and its delete of the live record keys
NextOverride ==
    \/ Tick
    \/ \E t \in {"t1"} : nextId = 1 /\ StartCheck(1, t)
    \/ \E l \in Lessons : StartSave(1, l, RoomIp, 1, 1)
    \/ AttendStep({1}, {"s1"}, {NearIp, FarIp}, {FALSE})
    \/ \E op \in {"live_accept", "live_fail"} : TeacherReceive(1, op, "t1", 1, "s1", FALSE)
    \/ TeacherVerifyOwner(1)
    \/ LiveRecordRead(1)
    \/ swPc \in {"delete_session", "delete_records"} /\ LiveRecordWrite(1)
    \/ TeacherReturn(1)
    \/ SweepStep
    \/ SweepStepFails

SpecOverride == Init /\ [][NextOverride]_vars

\* one verification job and the verifier's callbacks for it, which may arrive
\* at any time after the verifier has answered the submission; no correlation
\* entry expires and nobody else writes the record
NextEarlyCallback ==
    \/ \E t \in {"t1"} : nextId = 1 /\ StartCheck(1, t)
    \/ \E l \in Lessons : StartSave(1, l, RoomIp, MaxTime, 3)
    \/ AttendStep({1}, {"s1"}, {NearIp}, BOOLEAN)
    \/ AttendGetUserSession(1, TRUE)
    \/ nextVid = 1 /\ AttendMap(1)
    \/ AttendPostAccepted(1)
    \/ \E b \in {"passed", "failed"} :
           /\ nextVid = 2
           /\ IF acall[1] = IdleCall THEN TRUE ELSE acall[1].stage # "post"
           /\ HookReceive(1, 1, b, HmacSha256(WEBHOOK_SECRET_KEY, b))
    \/ HookResolve(1)
    \/ HookGetRecord(1)
    \/ HookDeleteDangling(1)
    \/ HookWrite(1)
    \/ HookDeleteMapping(1)
    \/ HookReturn(1)

SpecEarlyCallback == Init /\ [][NextEarlyCallback]_vars

\* students looking a lesson up by name while the teacher starts and finishes
\* sessions and the sweep removes expired ones
NextFind ==
    \/ Tick
    \/ TeacherStep({1}, {"t1"}, {RoomIp}, {1})
    \/ SweepSessionStep
    \/ FindStep({1}, NameKeys)

SpecFind == Init /\ [][NextFind]_vars

\* attend requests that arrive before and after the end of a session of any
\* security tier, and for ids that have no blob, with the sweep
NextEnded ==
    \/ Tick
    \/ \E t \in {"t1"} : nextId = 1 /\ StartCheck(1, t)
    \/ \E l \in Lessons, e \in Times, sec \in 1..3 : StartSave(1, l, RoomIp, e, sec)
    \/ AttendStep({1}, {"s1"}, {RoomIp, FarIp}, {TRUE})
    \/ AttendVerifyStep({1})
    \/ \E id \in Ids : AttendSessionRejected(1, "s1", id)
    \/ AttendRejectedReturn(1)
    \/ SweepStep

SpecEnded == Init /\ [][NextEnded]_vars

\* passes of the sweep in which any store call on a session may fail, over
\* sessions and records that were written between the passes (a pass starts
\* when no request is in flight, and requests are served between passes)
NextSweepFails ==
    \/ Tick
    \/ swPc = "idle" /\ TeacherStep({1}, {"t1"}, {RoomIp}, {1})
    \/ swPc = "idle" /\ AttendStep({1}, {"s1"}, {NearIp}, {FALSE})
    \/ NoCalls /\ SweepStep
    \/ SweepStepFails

SpecSweepFails == Init /\ [][NextSweepFails]_vars
\* corrections of durable records racing with the sweep: one session that one
\* student attends, the teacher's historical accept and fail and the record
\* deletion, the clock, and the sweep with store calls of its try block that
\* may raise, so that a session's live copy can outlive its durable write
NextCorrection ==
    \/ Tick
    \/ \E t \in {"t1"} : nextId = 1 /\ StartCheck(1, t)
    \/ \E l \in Lessons : StartSave(1, l, RoomIp, 1, 1)
    \/ AttendStep({1}, {"s1"}, {NearIp}, {FALSE})
    \/ \E op \in {"historical_accept", "historical_fail", "delete_record"} :
           TeacherReceive(1, op, "t1", 1, "s1", FALSE)
    \/ TeacherVerifyOwner(1)
    \/ HistoricalUpdate(1)
    \/ DeleteRecord(1)
    \/ TeacherReturn(1)
    \/ SweepStep
    \/ SweepStepFails

SpecCorrection == Init /\ [][NextCorrection]_vars
\* one student's concurrent attempts: one running tier-3 session and two
\* attend_to_attendance calls of student s1 in flight at once, each with a
\* photo and a reference photo, and the verifier accepting the jobs
NextConcurrent ==
    \/ \E t \in {"t1"} : nextId = 1 /\ StartCheck(1, t)
    \/ \E l \in Lessons : StartSave(1, l, RoomIp, MaxTime, 3)
    \/ AttendStep({1, 2}, {"s1"}, {NearIp}, {TRUE})
    \/ \E k \in {1, 2} :
           \/ AttendGetUserSession(k, TRUE)
           \/ AttendMap(k)
           \/ AttendPostAccepted(k)

SpecConcurrent == Init /\ [][NextConcurrent]_vars
\* ------------------------------------------------------------------ claims
\* a session id has been created once uuid4() has produced it and
\* save_attendance_session has stored it
Created == 1..(nextId - 1)

Expired(id) == id \in DOMAIN rSession /\ rSession[id].end_time < now

Migrated(id) ==
    /\ id \in DOMAIN dbAtt
    /\ id \notin DOMAIN rSession
    /\ \A t \in Teachers : id \notin idxTeacher[t]
    /\ \A key \in NameKeys : id \notin idxName[key]

\* C1 as stated: every created session id is in exactly one of the live store
\* (attendance_session blob) and the durable store (Attendances row)
C1_ExactlyOneStore ==
    \A id \in Created : (id \in DOMAIN rSession) # (id \in DOMAIN dbAtt)

\* C1 amended: every created session id is in the live store or in the
\* durable store, never in neither (it is in both from the sweep's insert of
\* the row until its delete of the blob, and whenever the blob is saved again
\* or the delete does not happen)
C1_NeverInNeitherStore ==
    /\ \A id \in Created : id \in DOMAIN rSession \/ id \in DOMAIN dbAtt
    /\ \A id \in Ids \ Created : id \notin DOMAIN rSession /\ id \notin DOMAIN dbAtt

\* C1: a session that the sweep moved: a durable row and no live blob
C1_Witness ==
    \E id \in Created : id \in DOMAIN dbAtt /\ id \notin DOMAIN rSession

\* C2: whenever a step deletes a session's live blob or a live record key,
\* the durable store already holds the session's row and a row, with the
\* collected values, for every record the sweep collected for it; no session
\* row and no record row ever leaves the durable store, so nothing is in
\* neither store, also after a store error or a crash of the sweep
C2_DeleteOnlyAfterDurableWrite ==
    [][/\ \A id \in (DOMAIN rSession) \ (DOMAIN rSession') :
              /\ id \in DOMAIN dbAtt
              /\ swSess # None /\ swSess[1].id = id
              /\ \A s \in DOMAIN swRecs :
                     /\ <<id, s>> \in DOMAIN dbRec
                     /\ dbRec[<<id, s>>] = RecordRow(swRecs[s])
       /\ \A key \in (DOMAIN rRecord) \ (DOMAIN rRecord') :
              /\ key[1] \in DOMAIN dbAtt
              /\ key \in DOMAIN dbRec
              /\ key[2] \in DOMAIN swRecs /\ dbRec[key] = RecordRow(swRecs[key[2]])
       /\ (DOMAIN dbAtt) \subseteq (DOMAIN dbAtt')
       /\ (DOMAIN dbRec) \subseteq (DOMAIN dbRec')
      ]_vars

\* C2: the sweep has deleted the blob and the record key of a session that
\* had a record
C2_Witness ==
    \E key \in DOMAIN dbRec :
        /\ key \notin DOMAIN rRecord
        /\ key[1] \notin DOMAIN rSession
        /\ swPc = "scan"

\* the durable store holds all of a live session: its row, the teacher's and
\* the students' Users rows, and a row with the same is_attended,
\* attendance_time and fail_reason for every live record
DurableComplete(id) ==
    /\ id \in DOMAIN dbAtt
    /\ dbAtt[id] = AttendanceRow(rSession[id])
    /\ rSession[id].teacher \in dbUsers
    /\ \A s \in Students :
           <<id, s>> \in DOMAIN rRecord =>
               /\ s \in dbUsers
               /\ <<id, s>> \in DOMAIN dbRec
               /\ dbRec[<<id, s>>] = RecordRow(rRecord[<<id, s>>])

\* the live store holds nothing of a session
LiveClean(id) ==
    /\ Migrated(id)
    /\ \A s \in Students : <<id, s>> \notin DOMAIN rRecord

\* C3: a pass of the sweep that runs alone and without store errors: when it
\* deletes a session's live keys the durable store holds all of the session,
\* the durable rows stay as written, and when scan_iter is exhausted every
\* session whose end_time was before the pass's `now` is out of the live store
\* (blob, both index entries, record keys)
C3_QuietPassMigrates ==
    [][/\ swPc = "delete_session" => DurableComplete(swSess[1].id)
       /\ \A id \in DOMAIN dbAtt : id \in DOMAIN dbAtt' /\ dbAtt'[id] = dbAtt[id]
       /\ \A key \in DOMAIN dbRec : key \in DOMAIN dbRec' /\ dbRec'[key] = dbRec[key]
       /\ dbUsers \subseteq dbUsers'
       /\ (swPc = "scan" /\ swPc' = "idle") =>
              \A id \in Created :
                  \/ id \in DOMAIN rSession /\ rSession[id].end_time >= swNow
                  \/ LiveClean(id)
      ]_vars

\* C3: a pass has ended that moved a session with the records of both
\* students, one of them a failed attempt
C3_Witness ==
    /\ swPc = "idle"
    /\ \E id \in Created :
           /\ LiveClean(id)
           /\ \A s \in Students : <<id, s>> \in DOMAIN dbRec
           /\ \E s \in Students : dbRec[<<id, s>>].reason = WIFI_FAILED
           /\ \E s \in Students : dbRec[<<id, s>>].att

HasLiveSession(t) ==
    \E id \in DOMAIN rSession : rSession[id].teacher = t /\ rSession[id].end_time > now

\* C5: start_attendance of a teacher who has a live session with a future
\* end_time is rejected (the lookup never lets the call go on), and a call
\* that goes on and saves creates a new live session indexed under the teacher
C5_StartRejectedWhileLive ==
    [][\A k \in TeacherCallSlots :
          /\ (tcall[k] = IdleCall /\ tcall'[k].op = "start") =>
                 ~HasLiveSession(tcall'[k].teacher)
          /\ (tcall[k].op = "start" /\ nextId' # nextId) =>
                 /\ nextId \in DOMAIN rSession'
                 /\ nextId \in idxTeacher'[tcall[k].teacher]
      ]_vars

\* C6: each teacher has at most one live session whose end_time is in the future
C6_AtMostOneLiveSession ==
    \A t \in Teachers :
        Cardinality({id \in DOMAIN rSession :
                        rSession[id].teacher = t /\ rSession[id].end_time > now}) <= 1

\* C7: for each verification id, at most one delivery writes the record
C7_VerdictAppliedAtMostOnce == \A v \in VerifIds : hookWrites[v] <= 1

\* the header is the HMAC-SHA256 of the raw body under the shared secret
CorrectlySigned(c) == c.sig = HmacSha256(WEBHOOK_SECRET_KEY, c.body)

\* the body is a JSON object whose overall_result holds verification_passed
\* and reason
WellFormed(body) == body \in {"passed", "failed"}

\* C8: a correctly signed, well-formed delivery whose id resolves to an
\* existing live record carries its verdict to the write; the write sets the
\* record to attended with a time and no reason when the verdict is passed,
\* and to not attended with a reason beginning FACE_VERIFICATION_FAILED when
\* it is failed; then the correlation entry is deleted and the response is 200
C8_VerdictApplied ==
    [][\A k \in HookCallSlots :
          /\ (HookCall(k, "received") /\ hcall'[k].op = "hook"
                 /\ hcall'[k].stage = "resolved") =>
                 /\ CorrectlySigned(hcall[k]) /\ WellFormed(hcall[k].body)
                 /\ hcall'[k].passed = (hcall[k].body = "passed")
                 /\ verif[hcall[k].vid] = <<hcall'[k].s, hcall'[k].id>>
          /\ (HookCall(k, "resolved") /\ <<hcall[k].id, hcall[k].s>> \in DOMAIN rRecord
                 /\ hcall'[k] # hcall[k]) =>
                 \/ hcall'[k].stage = "failed"
                 \/ /\ hcall'[k].stage = "loaded"
                    /\ hcall'[k].passed = hcall[k].passed
                    /\ hcall'[k].id = hcall[k].id /\ hcall'[k].s = hcall[k].s
          /\ (HookCall(k, "loaded") /\ hcall'[k].op = "hook"
                 /\ hcall'[k].stage = "written") =>
                 LET key == <<hcall[k].id, hcall[k].s>>
                 IN /\ key \in DOMAIN rRecord'
                    /\ IF hcall[k].passed
                          THEN /\ rRecord'[key].att
                               /\ rRecord'[key].time \in Times
                               /\ rRecord'[key].reason = None
                          ELSE /\ ~rRecord'[key].att
                               /\ rRecord'[key].reason # None
                               /\ rRecord'[key].reason[1] = "FACE_VERIFICATION_FAILED"
          /\ (HookCall(k, "written") /\ hcall'[k].op = "hook"
                 /\ hcall'[k].stage = "done") =>
                 /\ hcall'[k].code = 200
                 /\ hcall[k].vid \notin DOMAIN verif'
      ]_vars

\* C8: a passed verdict has been written, its correlation entry is gone and
\* the delivery has answered 200
C8_Witness ==
    \E v \in VerifIds, k \in HookCallSlots, key \in DOMAIN rRecord :
        /\ hookWrites[v] = 1
        /\ v \notin DOMAIN verif
        /\ hcall[k] = HookDone(200)
        /\ rRecord[key].att /\ rRecord[key].reason = None

\* C9: a correctly signed, well-formed delivery whose verification id has no
\* correlation entry answers 200 (unless the store call raises) and changes
\* no attendance record and no correlation entry
C9_UnknownIdIsNoOp ==
    [][\A k \in HookCallSlots :
          (/\ HookCall(k, "received")
           /\ CorrectlySigned(hcall[k]) /\ WellFormed(hcall[k].body)
           /\ hcall[k].vid \notin DOMAIN verif
           /\ hcall'[k] # hcall[k]) =>
              /\ hcall'[k] = HookDone(200) \/ hcall'[k].stage = "failed"
              /\ rRecord' = rRecord
              /\ verif' = verif
      ]_vars

\* C9: a delivery has answered 200 although no delivery ever wrote a record,
\* while a record is pending and no correlation entry is left
C9_Witness ==
    /\ \E k \in HookCallSlots : hcall[k] = HookDone(200)
    /\ \A v \in VerifIds : hookWrites[v] = 0
    /\ \E key \in DOMAIN rRecord : rRecord[key].reason = PENDING
    /\ nextVid > 1
    /\ DOMAIN verif = {}

\* C10: a delivery whose header is not the HMAC-SHA256 of the raw body is
\* answered 403, also when the body is malformed; a correctly signed delivery
\* whose body has no valid overall_result is answered 422; neither changes an
\* attendance record or a correlation entry
C10_BadDeliveriesRejected ==
    [][(HookCall(1, "received") /\ hcall'[1] # hcall[1]) =>
          /\ ~CorrectlySigned(hcall[1]) =>
                 hcall'[1] = HookDone(403) /\ rRecord' = rRecord /\ verif' = verif
          /\ (CorrectlySigned(hcall[1]) /\ ~WellFormed(hcall[1].body)) =>
                 hcall'[1] = HookDone(422) /\ rRecord' = rRecord /\ verif' = verif
      ]_vars

\* C11: a correctly signed, well-formed delivery whose verification id
\* resolves to a (student, session) pair without a live record goes on to
\* delete the correlation entry and answers 404; no step of it creates or
\* changes an attendance record
C11_DanglingEntryDeleted ==
    [][/\ (HookCall(1, "resolved") /\ hcall'[1] # hcall[1]
              /\ <<hcall[1].id, hcall[1].s>> \notin DOMAIN rRecord) =>
              /\ hcall'[1] = [op |-> "hook", stage |-> "dangling", vid |-> hcall[1].vid]
              /\ rRecord' = rRecord
       /\ (HookCall(1, "dangling") /\ hcall'[1] # hcall[1]) =>
              /\ hcall'[1] = HookDone(404)
              /\ hcall[1].vid \notin DOMAIN verif'
              /\ \A v \in DOMAIN verif : v # hcall[1].vid => v \in DOMAIN verif'
              /\ rRecord' = rRecord
       /\ (hcall'[1] = HookDone(404) /\ hcall'[1] # hcall[1]) => HookCall(1, "dangling")
      ]_vars

\* C11: a delivery has answered 404: its entry is gone and the pair it named
\* (the only student's attempt was still in flight) has no record
C11_Witness ==
    /\ hcall[1] = HookDone(404)
    /\ nextVid > 1
    /\ DOMAIN verif = {}
    /\ DOMAIN rRecord = {}

\* the student of an attend call already has a record of the session that is
\* attended or pending
HasSettledRecord(c) ==
    /\ <<c.id, c.s>> \in DOMAIN rRecord
    /\ \/ rRecord[<<c.id, c.s>>].att
       \/ rRecord[<<c.id, c.s>>].reason = PENDING

\* C12: attend_to_attendance of a student whose live record of the session is
\* attended or pending ends with an error right after reading the record (no
\* network check, no verifier call, no write), and leaves the records and the
\* correlation map as they are
C12_SettledRecordStopsAttempt ==
    [][\A k \in AttendCallSlots :
          (AttendCall(k, "session") /\ acall'[k] # acall[k] /\ HasSettledRecord(acall[k])) =>
              /\ acall'[k] = IdleCall
              /\ rRecord' = rRecord
              /\ verif' = verif /\ nextVid' = nextVid
      ]_vars

\* C12: a new attempt of a student has read the session while the student's
\* record is attended (the verifier's passed verdict was applied)
C12_Witness ==
    \E k \in AttendCallSlots :
        /\ AttendCall(k, "session")
        /\ HasSettledRecord(acall[k])
        /\ rRecord[<<acall[k].id, acall[k].s>>].att

\* C13: for a tier-1 session that was live with a future end_time when the
\* call read it, attend_to_attendance of a student without an attended or
\* pending record builds, whatever the caller's address and with or without
\* a photo, a record with is_attended = true, the current time and no fail
\* reason, and stores that record
C13_TierOneAlwaysAttended ==
    [][\A k \in AttendCallSlots :
          /\ (acall[k] = IdleCall /\ acall'[k] # IdleCall) =>
                 /\ acall'[k].id \in DOMAIN rSession
                 /\ rSession[acall'[k].id].end_time > now
                 /\ acall'[k].sec = rSession[acall'[k].id].sec
          /\ (AttendCall(k, "session") /\ acall[k].sec = 1
                 /\ acall'[k] # acall[k] /\ ~HasSettledRecord(acall[k])) =>
                 /\ acall'[k].stage = "write"
                 /\ acall'[k].id = acall[k].id /\ acall'[k].s = acall[k].s
                 /\ acall'[k].rec = [att |-> TRUE, time |-> now, reason |-> None]
          /\ (AttendCall(k, "write") /\ rRecord' # rRecord) =>
                 /\ rRecord' = Put(rRecord, <<acall[k].id, acall[k].s>>, acall[k].rec)
                 /\ acall'[k] = IdleCall
      ]_vars

\* C13: a student's attended record of a live tier-1 session
C13_Witness ==
    \E key \in DOMAIN rRecord :
        /\ key[1] \in DOMAIN rSession
        /\ rSession[key[1]].sec = 1
        /\ rRecord[key].att /\ rRecord[key].time \in Times /\ rRecord[key].reason = None
        /\ \A k \in AttendCallSlots : acall[k] = IdleCall

\* the caller address and the session's address on file are the same network:
\* both present, and identical or both IPv4 in the same /24 or both IPv6 in
\* the same /64
SameNetwork(a, b) ==
    /\ a # None /\ b # None
    /\ \/ a = b
       \/ a[1] = "v4" /\ b[1] = "v4" /\ a[2] = b[2]
       \/ a[1] = "v6" /\ b[1] = "v6" /\ a[2] = b[2]

\* C14: for a tier-2 session, attend_to_attendance of a student without an
\* attended or pending record builds an attended record exactly when the
\* caller's address and the session's address are the same network, in every
\* other case a record with is_attended = false and fail reason WIFI_FAILED,
\* and stores the record it built
C14_TierTwoNetworkCheck ==
    [][\A k \in AttendCallSlots :
          /\ (AttendCall(k, "session") /\ acall[k].sec = 2
                 /\ acall'[k] # acall[k] /\ ~HasSettledRecord(acall[k])) =>
                 /\ acall'[k].stage = "write"
                 /\ acall'[k].id = acall[k].id /\ acall'[k].s = acall[k].s
                 /\ acall'[k].rec.att = SameNetwork(acall[k].student_ip, acall[k].ip)
                 /\ acall'[k].rec.att => acall'[k].rec.reason = NoReason
                 /\ ~acall'[k].rec.att => acall'[k].rec.reason = WIFI_FAILED
          /\ (AttendCall(k, "write") /\ rRecord' # rRecord) =>
                 rRecord' = Put(rRecord, <<acall[k].id, acall[k].s>>, acall[k].rec)
      ]_vars

\* C14: a tier-2 session started from an IPv6 address holds the attended
\* record of one student and the WIFI_FAILED record of another
C14_Witness ==
    \E id \in DOMAIN rSession :
        /\ rSession[id].sec = 2 /\ rSession[id].ip # None /\ rSession[id].ip[1] = "v6"
        /\ \E a, b \in Students :
               /\ <<id, a>> \in DOMAIN rRecord /\ <<id, b>> \in DOMAIN rRecord
               /\ rRecord[<<id, a>>].att /\ rRecord[<<id, a>>].reason = NoReason
               /\ ~rRecord[<<id, b>>].att /\ rRecord[<<id, b>>].reason = WIFI_FAILED

\* the immediate rejection record of an attend call with the given reason
Rejected(c, r) ==
    /\ c # IdleCall /\ c.stage = "write"
    /\ ~c.rec.att /\ c.rec.time = NoTime /\ c.rec.reason = r

\* C15: for a tier-3 session, an attend call of a student without an attended
\* or pending record moves on to the reference photo only when the network
\* check passed and a photo was sent, and on to the correlation entry only
\* when a reference photo is on file; a correlation entry is created, and the
\* verifier contacted, only by a call that passed all three; otherwise the
\* call builds an is_attended = false record with WIFI_FAILED for a failed
\* network check, else IMAGE_MISSING for a missing photo, else
\* REFERENCE_IMAGE_NOT_FOUND, and leaves the correlation map unchanged
C15_TierThreeGates ==
    [][/\ \A k \in AttendCallSlots :
             LET c == acall[k]
                 d == acall'[k]
             IN /\ (AttendCall(k, "session") /\ c.sec = 3 /\ d # c /\ ~HasSettledRecord(c)) =>
                       /\ verif' = verif /\ nextVid' = nextVid
                       /\ IF ~SameNetwork(c.student_ip, c.ip) THEN Rejected(d, WIFI_FAILED)
                          ELSE IF ~c.photo THEN Rejected(d, IMAGE_MISSING)
                          ELSE d.stage = "user_session"
                /\ (AttendCall(k, "user_session") /\ d # c) =>
                       /\ verif' = verif /\ nextVid' = nextVid
                       /\ \/ d = IdleCall
                          \/ d # IdleCall /\ d.stage = "map"
                          \/ Rejected(d, REFERENCE_IMAGE_NOT_FOUND)
                /\ (d # c /\ d # IdleCall /\ d.stage = "map") => AttendCall(k, "user_session")
                /\ (d # c /\ d # IdleCall /\ d.stage = "post") =>
                       /\ AttendCall(k, "map")
                       /\ c.sec = 3 /\ c.photo /\ SameNetwork(c.student_ip, c.ip)
                       /\ verif' = Put(verif, d.vid, <<c.s, c.id>>)
                       /\ d.vid \notin DOMAIN verif
                /\ (d # c /\ d # IdleCall /\ d.stage = "write") =>
                       /\ d.id = c.id /\ d.s = c.s
                       /\ (d.rec.reason \in {WIFI_FAILED, IMAGE_MISSING,
                                             REFERENCE_IMAGE_NOT_FOUND}
                              => verif' = verif)
       /\ (\A j \in AttendCallSlots : acall'[j] = acall[j] \/ ~AttendCall(j, "map")) =>
              \A v \in DOMAIN verif' : v \in DOMAIN verif
      ]_vars

\* C15: a tier-3 session holds one student's immediate rejection while the
\* call of another student, which passed the network check with a photo and
\* a reference photo, has created its correlation entry
C15_Witness ==
    \E k \in AttendCallSlots, key \in DOMAIN rRecord :
        /\ AttendCall(k, "post") /\ acall[k].sec = 3
        /\ acall[k].vid \in DOMAIN verif
        /\ key[1] = acall[k].id /\ key[2] # acall[k].s
        /\ rRecord[key].reason \in {WIFI_FAILED, IMAGE_MISSING, REFERENCE_IMAGE_NOT_FOUND}

\* the correlation entries that resolve to a (student, session) pair
EntriesOf(s, id) == {v \in DOMAIN verif : verif[v] = <<s, id>>}

\* C16: for a tier-3 session, an attend call that passed the network check
\* with a photo and a reference photo creates exactly one new correlation
\* entry, and it resolves to the call's (student, session) pair; when the
\* verifier accepts the job the call builds the record with is_attended =
\* false and fail reason FACE_RECOGNITION_PENDING while that entry exists,
\* and stores that record
C16_AcceptedJobIsPending ==
    [][\A k \in AttendCallSlots :
          LET c == acall[k]
              d == acall'[k]
          IN /\ (AttendCall(k, "map") /\ d # c /\ d # IdleCall) =>
                    /\ d.stage = "post" /\ d.s = c.s /\ d.id = c.id
                    /\ DOMAIN verif' = DOMAIN verif \cup {d.vid}
                    /\ d.vid \notin DOMAIN verif
                    /\ verif'[d.vid] = <<c.s, c.id>>
                    /\ \A v \in DOMAIN verif : verif'[v] = verif[v]
             /\ (AttendCall(k, "post") /\ d # c /\ d.stage = "write") =>
                    /\ d.s = c.s /\ d.id = c.id
                    /\ d.rec = [att |-> FALSE, time |-> NoTime, reason |-> PENDING]
                    /\ c.vid \in EntriesOf(c.s, c.id)
                    /\ verif' = verif
             /\ (AttendCall(k, "write") /\ c.rec.reason = PENDING /\ rRecord' # rRecord) =>
                    /\ rRecord' = Put(rRecord, <<c.id, c.s>>, c.rec)
                    /\ EntriesOf(c.s, c.id) # {}
                    /\ verif' = verif
      ]_vars

\* C16: a student's pending record of a tier-3 session is stored, and exactly
\* one correlation entry resolves to the student and the session
C16_Witness ==
    \E key \in DOMAIN rRecord :
        /\ key[1] \in DOMAIN rSession /\ rSession[key[1]].sec = 3
        /\ ~rRecord[key].att /\ rRecord[key].reason = PENDING
        /\ Cardinality(EntriesOf(key[2], key[1])) = 1
        /\ \A k \in AttendCallSlots : acall[k] = IdleCall

\* C17: when the post to the verifier fails, the call goes on to delete the
\* correlation entry it created; unless that delete itself raises, the entry
\* is gone after it (and its id is never used again), the call builds the
\* record with is_attended = false and fail reason
\* FACE_VERIFICATION_SUBMISSION_FAILED, and stores that record
C17_FailedSubmissionRolledBack ==
    [][/\ \A k \in AttendCallSlots :
             LET c == acall[k]
                 d == acall'[k]
             IN /\ (AttendCall(k, "post") /\ d # c /\ d.stage # "write") =>
                       /\ d = [c EXCEPT !.stage = "rollback"]
                       /\ verif' = verif /\ rRecord' = rRecord
                /\ (AttendCall(k, "rollback") /\ d # c /\ d # IdleCall) =>
                       /\ c.vid \notin DOMAIN verif'
                       /\ \A v \in DOMAIN verif \ {c.vid} :
                              v \in DOMAIN verif' /\ verif'[v] = verif[v]
                       /\ d.stage = "write" /\ d.s = c.s /\ d.id = c.id
                       /\ d.rec = [att |-> FALSE, time |-> NoTime,
                                   reason |-> SUBMISSION_FAILED]
                /\ (AttendCall(k, "write") /\ c.rec.reason = SUBMISSION_FAILED
                       /\ rRecord' # rRecord) =>
                       /\ rRecord' = Put(rRecord, <<c.id, c.s>>, c.rec)
                       /\ rRecord'[<<c.id, c.s>>].reason # PENDING
                       /\ verif' = verif
       /\ \A v \in DOMAIN verif' \ DOMAIN verif : v = nextVid /\ nextVid' > nextVid
      ]_vars

\* C17: a student's FACE_VERIFICATION_SUBMISSION_FAILED record is stored and
\* the correlation entry created for the attempt is gone
C17_Witness ==
    \E key \in DOMAIN rRecord :
        /\ ~rRecord[key].att /\ rRecord[key].reason = SUBMISSION_FAILED
        /\ nextVid = 2 /\ DOMAIN verif = {}
        /\ \A k \in AttendCallSlots : acall[k] = IdleCall

\* teacher t is not the teacher of session id, in the live store and in the
\* durable store
NotOwner(t, id) ==
    /\ id \in DOMAIN rSession \cup DOMAIN dbAtt
    /\ id \in DOMAIN rSession => rSession[id].teacher # t
    /\ id \in DOMAIN dbAtt => dbAtt[id].teacher # t

\* C20: finish, live accept, live fail, historical add, historical accept,
\* historical fail, delete-attendance and delete-record all begin with the
\* owner check; a request of a teacher who is not the session's teacher is
\* answered with an error (HTTP 404) by that check, no call that got past the
\* check belongs to such a teacher, and from its arrival to its response the
\* request changes nothing in the live store and the durable store
C20_NonOwnerRejected ==
    [][\A k \in TeacherCallSlots :
          LET c == tcall[k]
              d == tcall'[k]
          IN /\ (c = IdleCall /\ d # c /\ d.op \in OwnerCheckedOps) =>
                    /\ d.stage = "received"
                    /\ UNCHANGED <<storeVars, dbVars>>
             /\ (c.op \in OwnerCheckedOps /\ c.stage = "received" /\ d # c
                    /\ NotOwner(c.teacher, c.id)) =>
                    /\ d = TeacherDone(c, 404)
                    /\ UNCHANGED <<storeVars, dbVars>>
             /\ (c.op \in OwnerCheckedOps /\ c.stage # "received") =>
                    ~NotOwner(c.teacher, c.id)
             /\ (c.op = "done" /\ d # c) =>
                    /\ d = IdleCall
                    /\ UNCHANGED <<storeVars, dbVars>>
      ]_vars

\* C20: teacher t2's request to delete a student's durable record of teacher
\* t1's migrated session has been answered with HTTP 404 by the owner check
C20_Witness ==
    \E k \in TeacherCallSlots :
        /\ tcall[k].op = "done" /\ tcall[k].req = "delete_record"
        /\ tcall[k].teacher = "t2" /\ tcall[k].code = 404
        /\ tcall[k].id \in DOMAIN dbAtt /\ dbAtt[tcall[k].id].teacher = "t1"
        /\ <<tcall[k].id, "s1">> \in DOMAIN dbRec
        /\ ~dbRec[<<tcall[k].id, "s1">>].is_deleted

\* C19: finish_attendance of the owning teacher reads the live session and
\* sets end_time to the current time in its copy, changing no store; its
\* save, on a session that is still live, leaves the blob in the live store
\* with that end_time and every other field as it was, and leaves the index
\* memberships, the live records, the correlation map and the durable store
\* unchanged; no step of the call removes the blob
C19_FinishOnlySetsEndTime ==
    [][\A k \in TeacherCallSlots :
          LET c == tcall[k]
              d == tcall'[k]
          IN /\ (c.op = "finish" /\ c.stage = "owner" /\ d # c) =>
                    /\ UNCHANGED <<storeVars, dbVars>>
                    /\ (c.id \in DOMAIN rSession /\ rSession[c.id].teacher = c.teacher) =>
                           /\ d # IdleCall /\ d.stage = "read" /\ d.id = c.id
                           /\ d.sess = [rSession[c.id] EXCEPT !.end_time = now]
             /\ (c.op = "finish" /\ c.stage = "read" /\ d # c) =>
                    /\ d = IdleCall
                    /\ c.id \in DOMAIN rSession => c.id \in DOMAIN rSession'
                    /\ UNCHANGED <<rRecord, verVars, dbVars>>
                    /\ (c.id \in DOMAIN rSession /\ rSession' # rSession) =>
                           /\ rSession' = [rSession EXCEPT ![c.id].end_time = c.sess.end_time]
                           /\ c.sess.end_time <= now
                           /\ UNCHANGED <<idxTeacher, idxName>>
                    /\ (c.id \in DOMAIN rSession /\ rSession' = rSession) =>
                           UNCHANGED <<idxTeacher, idxName>>
      ]_vars

\* C19: the owning teacher's finish has read a live session that has a
\* student's record and holds the copy with end_time set to the current
\* time, which is earlier than the stored one
C19_Witness ==
    \E k \in TeacherCallSlots :
        /\ tcall[k].op = "finish" /\ tcall[k].stage = "read"
        /\ tcall[k].id \in DOMAIN rSession
        /\ tcall[k].sess.end_time = now
        /\ tcall[k].sess.end_time < rSession[tcall[k].id].end_time
        /\ \E s \in Students : <<tcall[k].id, s>> \in DOMAIN rRecord

\* a record that is not attended and carries FACE_RECOGNITION_PENDING
IsPending(r) == ~r.att /\ r.reason = PENDING

\* student s's live record of session id is pending and no correlation entry
\* resolves to the pair any more; no attempt of the student that got past the
\* record check before the record was written, and no callback that read the
\* entry before it went away, is still in flight
PendingWithoutEntry(id, s) ==
    /\ <<id, s>> \in DOMAIN rRecord /\ IsPending(rRecord[<<id, s>>])
    /\ EntriesOf(s, id) = {}
    /\ \A k \in AttendCallSlots :
           \/ acall[k] = IdleCall
           \/ acall[k].stage = "session"
           \/ acall[k].id # id \/ acall[k].s # s
    /\ \A k \in HookCallSlots :
           \/ hcall[k] = IdleCall
           \/ hcall[k].stage \notin {"resolved", "loaded"}
           \/ hcall[k].id # id \/ hcall[k].s # s

C21_MigratedNeverLiveAgain ==
    [][\A id \in Ids : Migrated(id) => Migrated(id)']_vars

\* C22: in every state, an id has a live session blob exactly when it is in
\* the teacher index of the blob's teacher and in the name index of the
\* blob's lesson name and teacher full name, and it is in no other index set
C22_BlobIffIndexed ==
    \A id \in Ids :
        /\ id \in DOMAIN rSession =>
               /\ id \in idxTeacher[rSession[id].teacher]
               /\ id \in idxName[NameKey(rSession[id])]
        /\ \A t \in Teachers :
               id \in idxTeacher[t] => id \in DOMAIN rSession /\ rSession[id].teacher = t
        /\ \A key \in NameKeys :
               id \in idxName[key] => id \in DOMAIN rSession /\ NameKey(rSession[id]) = key

\* C22: one session is live with both of its index entries while another has
\* been deleted from the live store together with its index entries
C22_Witness ==
    \E id, gone \in Created :
        /\ id \in DOMAIN rSession
        /\ id \in idxTeacher[rSession[id].teacher]
        /\ id \in idxName[NameKey(rSession[id])]
        /\ Migrated(gone)

\* C23: for every teacher, every value get_attendance_session_of_teacher can
\* return is an unexpired live session of that teacher when the teacher has
\* one, and none otherwise: never an expired session, and never none while
\* an unexpired live session of the teacher exists
C23_LookupFindsUnexpired ==
    \A t \in Teachers :
        \A r \in get_attendance_session_of_teacher(t) :
            IF HasLiveSession(t)
            THEN /\ r # None
                 /\ r[1].teacher = t
                 /\ r[1].end_time > now
                 /\ r[1].id \in DOMAIN rSession
            ELSE r = None

\* the sessions of the live store under a name key whose end_time is in the future
ActiveByName(key) ==
    {rSession[id] : id \in {i \in DOMAIN rSession :
                              /\ NameKey(rSession[i]) = key
                              /\ rSession[i].end_time > now}}

\* C24: the list find_active_sessions_by_name returns holds exactly the live
\* sessions under the given lesson name and teacher full name whose end_time
\* is in the future, among the ids the call read from the index: ids whose
\* blob is gone and expired sessions are omitted, the list is empty when
\* nothing matches, and when no session was saved under the name since the
\* index was read the list is the whole set of such sessions
C24_FindReturnsActive ==
    [][\A k \in AttendCallSlots :
          (/\ acall'[k] # acall[k]
           /\ acall'[k].op = "find"
           /\ acall'[k].stage = "done") =>
              /\ acall'[k].result =
                     {sess \in ActiveByName(acall'[k].key) : sess.id \in acall'[k].ids}
              /\ idxName[acall'[k].key] \subseteq acall'[k].ids =>
                     acall'[k].result = ActiveByName(acall'[k].key)
      ]_vars

\* C24: a lookup has returned a non-empty list although one of the ids it
\* read from the index had no blob any more when it was fetched
C24_Witness ==
    \E k \in AttendCallSlots :
        /\ acall[k].op = "find"
        /\ acall[k].stage = "done"
        /\ acall[k].result # {}
        /\ acall[k].result = ActiveByName(acall[k].key)
        /\ \E id \in acall[k].ids : id \notin DOMAIN rSession

\* C25: an attend_to_attendance request for a session id that has no live
\* blob, or whose end_time is at or before the current time, ends with the
\* error, whatever the session's security tier: the step that receives it and
\* every later step of that call leave all attendance records and all
\* correlation entries as they are
C25_EndedSessionRejected ==
    [][\A k \in AttendCallSlots :
          /\ (/\ acall[k] = IdleCall
              /\ acall'[k].op = "attend"
              /\ IF acall'[k].id \in DOMAIN rSession
                    THEN rSession[acall'[k].id].end_time <= now
                    ELSE TRUE) =>
                 /\ acall'[k].stage = "raised"
                 /\ rRecord' = rRecord /\ verif' = verif /\ nextVid' = nextVid
          /\ (/\ acall[k].op = "attend"
              /\ acall[k].stage = "raised"
              /\ acall'[k] # acall[k]) =>
                 /\ acall'[k] = IdleCall
                 /\ rRecord' = rRecord /\ verif' = verif /\ nextVid' = nextVid
      ]_vars

\* C25: a request for a tier-3 session that has ended has been refused, and
\* the student has no record for it
C25_Witness ==
    \E k \in AttendCallSlots :
        /\ acall[k].op = "attend"
        /\ acall[k].stage = "raised"
        /\ acall[k].id \in DOMAIN rSession
        /\ rSession[acall[k].id].sec = 3
        /\ rSession[acall[k].id].end_time <= now
        /\ <<acall[k].id, acall[k].s>> \notin DOMAIN rRecord

\* C26: within a pass of unified_persistence_task, a failure while one session
\* is processed takes the loop back to the scan with every key not yet yielded
\* still to come; the pass ends only after the scan has yielded every key; and
\* every key the scan yields whose session is live and expired is taken up for
\* migration, whatever happened to the sessions before it
C26_FailureDoesNotStopPass ==
    [][/\ (SweepWorking /\ ~SweepWorking') =>
              swPc' = "scan" /\ swTodo' = swTodo
       /\ (swPc # "idle" /\ swPc' = "idle") =>
              swPc = "scan" /\ swTodo = {}
       /\ \A id \in Ids :
              (/\ id \in swTodo /\ id \notin swTodo'
               /\ id \in DOMAIN rSession
               /\ rSession[id].end_time < swNow) =>
                  swPc' = "add_teacher" /\ swSess' = Some(rSession[id])
      ]_vars

\* C26: in one pass, the processing of one expired session has failed (it is
\* still live, and the scan is past it) and another expired session is being
\* migrated
C26_Witness ==
    \E failed, other \in DOMAIN rSession :
        /\ failed # other
        /\ swPc \in {"add_attendance", "delete_session"}
        /\ swSess = Some(rSession[other])
        /\ failed \notin swTodo
        /\ rSession[failed].end_time < swNow

\* C27: when a sweep writes a session that an earlier, failed sweep had
\* already written in part, the durable session row after its add_attendances
\* equals the live session as this sweep read it, and the durable record rows
\* after its add_attendance_records equal the live records as this sweep read
\* them
C27_ResweepConverges ==
    [][/\ (swPc = "add_attendance" /\ swPc' \in {"add_records", "delete_session"}) =>
              /\ swSess[1].id \in DOMAIN dbAtt'
              /\ dbAtt'[swSess[1].id] = AttendanceRow(swSess[1])
       /\ (swPc = "add_records" /\ swPc' = "delete_session") =>
              \A s \in DOMAIN swRecs :
                  /\ <<swSess[1].id, s>> \in DOMAIN dbRec'
                  /\ dbRec'[<<swSess[1].id, s>>] = RecordRow(swRecs[s])
      ]_vars

\* the live and durable state kept under a session id
LiveStateOf(id) ==
    <<Get(rSession, id),
      {t \in Teachers : id \in idxTeacher[t]},
      {key \in NameKeys : id \in idxName[key]},
      [s \in {x \in Students : <<id, x>> \in DOMAIN rRecord} |-> rRecord[<<id, s>>]]>>

DurableStateOf(id) ==
    <<Get(dbAtt, id),
      [s \in {x \in Students : <<id, x>> \in DOMAIN dbRec} |-> dbRec[<<id, s>>]]>>

\* the sweep is not in the middle of processing session id
SweepNotOn(id) == swSess = None \/ swSess[1].id # id

\* C28: once a session has been fully migrated (its durable row exists, its
\* blob and index entries are gone, and the sweep has left it), no step of
\* unified_persistence_task, in that pass or in any later one, changes
\* anything kept under that id in the durable store or in the live store
C28_ResweepIsNoOp ==
    [][\A id \in Ids :
          (/\ Migrated(id)
           /\ SweepNotOn(id)
           /\ sweepVars' # sweepVars) =>
              /\ LiveStateOf(id)' = LiveStateOf(id)
              /\ DurableStateOf(id)' = DurableStateOf(id)
      ]_vars

\* C28: a later pass of the sweep is migrating another session while a fully
\* migrated session has its durable rows and a live record left behind
C28_Witness ==
    \E id \in Ids, s \in Students :
        /\ Migrated(id)
        /\ <<id, s>> \in DOMAIN dbRec
        /\ <<id, s>> \in DOMAIN rRecord
        /\ swPc = "delete_records"
        /\ swSess[1].id # id

\* the ids that have a live blob or an entry in the teacher index or in the
\* name index
LiveSessionIds ==
    <<DOMAIN rSession,
      [t \in Teachers |-> idxTeacher[t]],
      [key \in NameKeys |-> idxName[key]]>>

\* C29: a step that removes a session blob, or removes an id from a teacher
\* index or from a name index, is the delete_attendance_session step of
\* unified_persistence_task; every step of start, finish, attend, live accept
\* and fail, the historical operations, delete-attendance, delete-record and
\* the webhook leaves each of these sets as it is or adds to it
C29_OnlySweepRemovesSessions ==
    [][(\/ ~(DOMAIN rSession \subseteq DOMAIN rSession')
        \/ \E t \in Teachers : ~(idxTeacher[t] \subseteq idxTeacher'[t])
        \/ \E key \in NameKeys : ~(idxName[key] \subseteq idxName'[key])) =>
           /\ swPc = "delete_session"
           /\ swPc' # swPc
           /\ tcall' = tcall /\ acall' = acall /\ hcall' = hcall
      ]_vars

\* C29: the webhook has written a record, the sweep has removed the session
\* from the live store, and delete-attendance has marked its durable row
C29_Witness ==
    \E id \in Ids :
        /\ Migrated(id)
        /\ dbAtt[id].is_deleted
        /\ hookWrites[1] >= 1
        /\ \E s \in Students : <<id, s>> \in DOMAIN dbRec

\* the keys at which two key-value stores differ
ChangedKeys(f, g) ==
    {x \in (DOMAIN f) \cup (DOMAIN g) :
        \/ x \notin DOMAIN f
        \/ x \notin DOMAIN g
        \/ (x \in DOMAIN f /\ x \in DOMAIN g /\ f[x] # g[x])}

\* C30: every step of the webhook handler leaves the session blobs, both
\* indexes and every durable row as they are and issues no verification id;
\* the pair it works on is the one its verification id resolved to; the only
\* record it writes is the record of that pair, and the only correlation
\* entry it deletes is the entry of its own verification id
C30_WebhookFrame ==
    [][\A k \in HookCallSlots :
          hcall'[k] # hcall[k] =>
              /\ rSession' = rSession /\ idxTeacher' = idxTeacher /\ idxName' = idxName
              /\ dbUsers' = dbUsers /\ dbAtt' = dbAtt /\ dbRec' = dbRec
              /\ nextVid' = nextVid
              /\ (hcall'[k].op = "hook" /\ hcall'[k].stage = "resolved") =>
                     /\ get_user_and_attendance_for_verification(hcall[k].vid) # None
                     /\ get_user_and_attendance_for_verification(hcall[k].vid)[1].s = hcall'[k].s
                     /\ get_user_and_attendance_for_verification(hcall[k].vid)[1].id = hcall'[k].id
              /\ (hcall'[k].op = "hook" /\ hcall'[k].stage = "loaded") =>
                     hcall'[k].s = hcall[k].s /\ hcall'[k].id = hcall[k].id
              /\ ChangedKeys(rRecord, rRecord') # {} =>
                     /\ hcall[k].op = "hook" /\ hcall[k].stage = "loaded"
                     /\ ChangedKeys(rRecord, rRecord') = {<<hcall[k].id, hcall[k].s>>}
              /\ ChangedKeys(verif, verif') # {} =>
                     /\ hcall[k].op = "hook"
                     /\ ChangedKeys(verif, verif') = {hcall[k].vid}
                     /\ hcall[k].vid \notin DOMAIN verif'
      ]_vars

\* C30: the handler has written the verdict into the record of its pair and
\* deleted its correlation entry, while the session has been migrated and
\* its durable rows exist
C30_Witness ==
    \E id \in Ids, s \in Students :
        /\ hcall[1] = HookDone(200)
        /\ hookWrites[1] = 1
        /\ 1 \notin DOMAIN verif
        /\ <<id, s>> \in DOMAIN rRecord
        /\ <<id, s>> \in DOMAIN dbRec
        /\ Migrated(id)

\* C31: no step removes a durable session row or record row; a successful
\* delete_attendance or delete_attendance_record leaves the row in its table
\* with is_deleted set, the request's reason and the current time, every other
\* column as it was, and afterwards get_attendances, get_attendance_by_id and
\* get_attendance_records do not return it
C31_DeletesAreSoft ==
    [][/\ DOMAIN dbAtt \subseteq DOMAIN dbAtt'
       /\ DOMAIN dbRec \subseteq DOMAIN dbRec'
       /\ \A k \in TeacherCallSlots :
              /\ (/\ TeacherCall(k, {"delete_attendance"}, "owner")
                  /\ tcall'[k] = TeacherDone(tcall[k], 204)
                  /\ tcall[k].id \in DOMAIN dbAtt) =>
                     /\ dbAtt'[tcall[k].id] =
                            [dbAtt[tcall[k].id] EXCEPT !.is_deleted = TRUE,
                                                       !.deletion_reason = DELETE_REASON,
                                                       !.deletion_time = now]
                     /\ get_attendance_by_id(tcall[k].id)' = None
                     /\ \A t \in Teachers : tcall[k].id \notin get_attendances(t)'
              /\ (/\ TeacherCall(k, {"delete_record"}, "owner")
                  /\ tcall'[k] = TeacherDone(tcall[k], 204)) =>
                     /\ <<tcall[k].id, tcall[k].s>> \in DOMAIN dbRec
                     /\ dbRec'[<<tcall[k].id, tcall[k].s>>] =
                            [dbRec[<<tcall[k].id, tcall[k].s>>] EXCEPT
                                 !.is_deleted = TRUE,
                                 !.deletion_reason = DELETE_REASON,
                                 !.deletion_time = now]
                     /\ tcall[k].s \notin get_historical_attendance_records(tcall[k].id)'
      ]_vars

\* C31: a session row and one of its record rows have been deleted: both are
\* still in their tables, marked with the reason and a time, and the readers
\* return neither
C31_Witness ==
    \E id \in DOMAIN dbAtt, s \in Students :
        /\ dbAtt[id].is_deleted
        /\ dbAtt[id].deletion_reason = DELETE_REASON
        /\ dbAtt[id].deletion_time # NoTime
        /\ <<id, s>> \in DOMAIN dbRec
        /\ dbRec[<<id, s>>].is_deleted
        /\ dbRec[<<id, s>>].deletion_time # NoTime
        /\ get_attendance_by_id(id) = None
        /\ s \notin get_historical_attendance_records(id)

\* C32: a pass of unified_persistence_task takes a session up only if the
\* end_time it read is before the time the pass started, and every step of
\* the pass that writes a durable row or deletes a live blob, index entry or
\* record does so for the session it took up, whose end_time as read is
\* before the start of the pass; a session that ends at or after the start
\* of the pass (one finished during the pass) is skipped
C32_SweepOnlyExpired ==
    [][/\ (swPc = "scan" /\ swPc' = "add_teacher") =>
              /\ swSess' # None
              /\ swSess'[1].id \in DOMAIN rSession
              /\ swSess'[1] = rSession[swSess'[1].id]
              /\ swSess'[1].end_time < swNow
       /\ (/\ swPc' # swPc
           /\ \/ dbAtt' # dbAtt
              \/ dbRec' # dbRec
              \/ dbUsers' # dbUsers
              \/ rSession' # rSession
              \/ idxTeacher' # idxTeacher
              \/ idxName' # idxName
              \/ rRecord' # rRecord) =>
              /\ swSess # None
              /\ swSess[1].end_time < swNow
              /\ \A id \in Ids \ {swSess[1].id} :
                     /\ LiveStateOf(id)' = LiveStateOf(id)
                     /\ DurableStateOf(id)' = DurableStateOf(id)
      ]_vars

\* C32: a pass has gone past a live session whose end_time is not before the
\* start of the pass and has left it alone, and is migrating another one
C32_Witness ==
    \E id \in DOMAIN rSession :
        /\ swPc = "delete_session"
        /\ swSess[1].id # id
        /\ id \notin swTodo
        /\ rSession[id].end_time >= swNow
        /\ id \notin DOMAIN dbAtt

\* C33: a finish_attendance call that saves leaves the session with an
\* end_time that is less than or equal to the end_time the session had before
\* the call read it, also when the session had expired and was not yet swept
C33_FinishNeverExtends ==
    [][\A k \in TeacherCallSlots :
          (/\ tcall[k].op = "finish"
           /\ tcall[k].stage = "read"
           /\ tcall'[k] = IdleCall
           /\ rSession' # rSession
           /\ tcall[k].id \in DOMAIN rSession) =>
              rSession'[tcall[k].id].end_time <= rSession[tcall[k].id].end_time
      ]_vars

\* C34: when the sweep deletes the live record keys of a session, every
\* record it collected is gone from the live store and its durable row holds
\* the value the sweep collected, also when a manual accept or fail has
\* written another value into the live record after the upsert: that value
\* is in neither store afterwards
C34_LateOverrideIsLost ==
    [][(swPc = "delete_records" /\ swPc' # swPc /\ rRecord' # rRecord) =>
           \A s \in DOMAIN swRecs :
               /\ <<swSess[1].id, s>> \notin DOMAIN rRecord'
               /\ <<swSess[1].id, s>> \in DOMAIN dbRec'
               /\ dbRec'[<<swSess[1].id, s>>] = RecordRow(swRecs[s])
      ]_vars

\* C34: a manual accept was written between the upsert and the delete of the
\* live key, and the sweep has completed: the teacher got a success response,
\* the live record is gone and the durable record is still not attended
C34_Witness ==
    \E k \in TeacherCallSlots :
        /\ tcall[k].op = "done"
        /\ tcall[k].req = "live_accept"
        /\ tcall[k].code = 200
        /\ swPc \in {"scan", "idle"}
        /\ <<tcall[k].id, "s1">> \notin DOMAIN rRecord
        /\ <<tcall[k].id, "s1">> \in DOMAIN dbRec
        /\ ~dbRec[<<tcall[k].id, "s1">>].att

\* C35: once the attend call that dispatched verification job 1 and a
\* callback for that job have both completed and the job's correlation entry
\* has been consumed, the student's record is not pending: the verdict is in
\* the record, whichever of the two calls wrote first
C35_EarlyCallbackNotLost ==
    \A id \in Ids, s \in Students :
        (/\ nextVid = 2
         /\ 1 \notin DOMAIN verif
         /\ acall[1] = IdleCall
         /\ hcall[1] = IdleCall
         /\ <<id, s>> \in DOMAIN rRecord) =>
            rRecord[<<id, s>>].reason # PENDING

\* C36: the webhook handler writes a record only while the stored record is
\* still pending: a record that a teacher has accepted or failed since the
\* job was dispatched is not overwritten by the callback
C36_WebhookOnlyWritesPending ==
    [][\A k \in HookCallSlots :
          (/\ hcall[k].op = "hook"
           /\ hcall[k].stage = "loaded"
           /\ hcall'[k] # hcall[k]
           /\ rRecord' # rRecord) =>
              /\ <<hcall[k].id, hcall[k].s>> \in DOMAIN rRecord
              /\ IsPending(rRecord[<<hcall[k].id, hcall[k].s>>])
      ]_vars

\* C37: in every state, every attendance record in the live store belongs to
\* a session whose blob is in the live store, except while the sweep is
\* between deleting that session's blob and deleting its record keys: once
\* the sweep has left a session it removed, none of its record keys remains
\* or reappears
C37_NoOrphanRecords ==
    \A key \in DOMAIN rRecord :
        SweepNotOn(key[1]) => key[1] \in DOMAIN rSession

\* C38: a historical accept, a historical fail or a record deletion applied
\* to a durable record is never overwritten or undone by a later sweep of the
\* same session: the sweep's add_attendance_records leaves every durable
\* record row that exists when it runs as it is (in SpecCorrection a row that
\* differs from the live record differs by a correction)
C38_SweepKeepsCorrections ==
    [][(swPc = "add_records" /\ swPc' = "delete_session")
          => \A key \in DOMAIN dbRec : dbRec'[key] = dbRec[key]]_vars

\* C39: for each (student, session) pair at most one correlation entry that
\* has not been consumed exists at any time, whatever the interleaving of the
\* student's attend_to_attendance calls
C39_OneEntryPerPair ==
    \A s \in Students, id \in Ids : Cardinality(EntriesOf(s, id)) <= 1

\* C40: every live attendance record satisfies: is_attended = true implies
\* that fail_reason is empty and attendance_time is set, and is_attended =
\* false implies that attendance_time is empty
C40_RecordWellFormed ==
    \A key \in DOMAIN rRecord :
        LET r == rRecord[key]
        IN /\ r.att => (r.reason = None /\ r.time # NoTime)
           /\ ~r.att => r.time = NoTime
====
